---- MODULE Spec2Model ----
(***************************************************************************)
(* jigify: configuration resolution (jigconfig.load) and the driver steps  *)
(* of jigify.py that consume its result.                                   *)
(*                                                                         *)
(* Lengths and areas are integers in hundredths of a millimetre (1.6 mm is *)
(* 160).  A configuration document (a parsed TOML file, a Python dict) is  *)
(* a tree of tagged nodes: a dict node carries a function from keys to     *)
(* nodes, a leaf carries a string, a number, a boolean or a list.          *)
(***************************************************************************)
EXTENDS Integers, Sequences, FiniteSets, TLC

VARIABLES
    pc,            \* position of the run: which part of load / the driver is next
    board,         \* the footprints placed on the board, in board order
    ref_map,       \* get_ref_info: ref -> info
    fp_map,        \* get_ref_info: kicad footprint -> info (mutated by load)
    mounting_holes,\* get_ref_info: refs recorded as mounting holes
    configFile,    \* the parsed project file, or None
    user_cfg,      \* jigconfig._user_cfg, the user machine-level config, or None
    default_cfg,   \* load's default_cfg
    cfg,           \* load's cfg, the tree being resolved
    alias_idx,     \* jigconfig._alias_idx
    th_fp_list,    \* load's th_fp_list
    smd_ref_list,  \* load's smd_ref_list
    th_ref_list,   \* load's th_ref_list
    used_th_fp,    \* load's proc_th_footprints
    err,           \* the exception that ended the run, if any
    run,           \* how many times load was called in this process
    first,         \* what the previous call of load was given and returned
    hole,          \* an opening handed to expand_small_hole, and what it returned
    shapes,        \* a mesh handed to gen_shell_shape, and the shapes it built
    jig            \* the driver's component loop and what it emits

vars == <<pc, board, ref_map, fp_map, mounting_holes, configFile, user_cfg,
          default_cfg, cfg, alias_idx, th_fp_list, smd_ref_list, th_ref_list,
          used_th_fp, err, run, first, hole, shapes, jig>>

\* What only a further call of load or the shell synthesis changes
later == <<run, first, hole, shapes, jig>>

-----------------------------------------------------------------------------
(* Configuration trees *)

S(x) == [t |-> "s", s |-> x]
N(x) == [t |-> "n", n |-> x]
B(x) == [t |-> "b", b |-> x]
L(x) == [t |-> "l", l |-> x]
D(f) == [t |-> "d", d |-> f]
None == [t |-> "none"]
EmptyDict == D(<<>>)

IsDict(node) == node.t = "d"
Keys(node) == DOMAIN node.d
Has(node, key) == IsDict(node) /\ key \in DOMAIN node.d
Get(node, key) == node.d[key]
Put(node, key, value) == D((key :> value) @@ node.d)
Pop(node, key) == D([k \in (DOMAIN node.d) \ {key} |-> node.d[k]])

\* Python truthiness of a value
Truthy(node) ==
    CASE node.t = "b" -> node.b
      [] node.t = "n" -> node.n # 0
      [] node.t = "s" -> node.s # ""
      [] node.t = "l" -> node.l # <<>>
      [] node.t = "d" -> DOMAIN node.d # {}
      [] OTHER -> FALSE

\* The exception kinds a run can end with
NoError == [kind |-> "none", key |-> "", allowed |-> <<>>]
Raise(kind, key, allowed) == [kind |-> kind, key |-> key, allowed |-> allowed]
TypeErrorNode == [t |-> "TypeError"]

-----------------------------------------------------------------------------
(* jigconfig.py: module constants *)

valid_shell_types == <<"wiggle", "fitting", "fitting_flower", "courtyard">>
valid_jig_types == <<"TH_soldering", "component_fitting">>
valid_base_types == <<"x_lines", "y_lines", "griddish", "mesh", "solid">>
valid_insertions == <<"top", "bottom">>
SMD_default_value_keys == <<"clearance_from_shells", "gap_from_shells">>
TH_ref_params == <<"kicad_footprint", "force_smd", "shell_type",
                   "shell_wrapper_thickness", "shell_wrapper_height",
                   "insertion_direction", "corner_cut_width",
                   "min_petal_length", "corner_cut_depth">>
TH_ref_params2 == <<"delta_shell_gap", "delta_shell_thickness",
                    "delta_shell_clearance_from_pcb">>
inheritable_footprint_keys == <<"shell_type", "shell_gap", "shell_thickness",
                                "shell_wrapper_thickness", "shell_wrapper_height",
                                "insertion_direction", "shell_clearance_from_pcb",
                                "corner_cut_width", "min_petal_length",
                                "corner_cut_depth", "force_smd">>
valid_footprint_keys == <<"kicad_footprint", "display_name">> \o inheritable_footprint_keys

Range(seq) == {seq[i] : i \in DOMAIN seq}

\* The user machine-level defaults written on first use
inbuilt_user_config ==
    D(("environment" :> EmptyDict)
   @@ ("openscad" :> D([binary |-> S("openscad"), use_manifold |-> B(FALSE)]))
   @@ ("3dprinter" :> D([min_printable_hole_area |-> N(150)])))

\* The built-in tool defaults
inbuilt_config ==
    D([pcb |-> D([thickness |-> N(160), tesellate_edge_cuts_curve |-> N(10)]),
       holder |-> D([pcb_overlap |-> N(30),
                     pcb_gap |-> N(30),
                     groove_size |-> N(1500),
                     forced_grooves |-> L(<<>>),
                     perimeter |-> N(160),
                     base |-> D([type |-> S("griddish"),
                                 thickness |-> N(100),
                                 perimeter_height |-> N(200),
                                 line_width |-> N(200),
                                 line_height |-> N(100)])]),
       TH |-> D([refs_do_not_process |-> L(<<>>),
                 refs_process_only_these |-> L(<<>>),
                 component_shell |-> D([shell_type |-> S("fitting"),
                                        insertion_direction |-> S("top"),
                                        shell_thickness |-> N(120),
                                        shell_gap |-> N(10),
                                        shell_clearance_from_pcb |-> N(100),
                                        corner_cut_width |-> N(40),
                                        min_petal_length |-> N(40),
                                        shell_wrapper_thickness |-> N(0),
                                        shell_wrapper_height |-> N(0),
                                        corner_cut_depth |-> N(20),
                                        force_smd |-> B(FALSE)])]),
       SMD |-> D([clearance_from_shells |-> N(50), gap_from_shells |-> N(50)]),
       footprint |-> EmptyDict,
       jig |-> D([type |-> S("TH_soldering")])])

get_default_user_config == inbuilt_user_config

\* The two TOML texts concatenated and parsed: their top-level tables side by side
get_default == D(inbuilt_user_config.d @@ inbuilt_config.d)

-----------------------------------------------------------------------------
(* jigconfig.transfer_default_values *)

\* A merge that does not descend into sections present on both sides
transfer_default_values_shallow(dflt, tree, keylist, overwrite) ==
    LET used == keylist \cap DOMAIN dflt.d
    IN  IF used = {} THEN tree
        ELSE IF ~IsDict(tree) /\ ~overwrite THEN TypeErrorNode
        ELSE D([key \in (DOMAIN tree.d) \cup used |->
                    IF key \in used /\ (overwrite \/ key \notin DOMAIN tree.d)
                    THEN dflt.d[key] ELSE tree.d[key]])

RECURSIVE transfer_default_values(_, _, _, _)
transfer_default_values(dflt, tree, keylist, overwrite) ==
    LET used == keylist \cap DOMAIN dflt.d
    IN  IF used = {} THEN tree
        ELSE IF ~IsDict(tree) /\ ~overwrite THEN TypeErrorNode
        ELSE
          LET val(key) ==
                IF key \notin used THEN tree.d[key]
                ELSE IF overwrite \/ key \notin DOMAIN tree.d THEN dflt.d[key]
                ELSE IF ~IsDict(dflt.d[key]) THEN tree.d[key]
                ELSE transfer_default_values(dflt.d[key], tree.d[key],
                                             DOMAIN dflt.d[key].d, FALSE)
              kids == [key \in (DOMAIN tree.d) \cup used |-> val(key)]
          IN  IF \E key \in DOMAIN kids : kids[key] = TypeErrorNode
              THEN TypeErrorNode
              ELSE D(kids)

-----------------------------------------------------------------------------
(* Paths into a tree *)

RECURSIVE At(_, _)
At(node, path) ==
    IF path = <<>> THEN node ELSE At(node.d[Head(path)], Tail(path))

RECURSIVE Defined(_, _)
Defined(node, path) ==
    \/ path = <<>>
    \/ /\ IsDict(node)
       /\ Head(path) \in DOMAIN node.d
       /\ Defined(node.d[Head(path)], Tail(path))

RECURSIVE SetAt(_, _, _)
SetAt(node, path, value) ==
    IF path = <<>> THEN value
    ELSE LET key == Head(path)
             sub == IF key \in DOMAIN node.d THEN node.d[key] ELSE EmptyDict
         IN  Put(node, key, SetAt(sub, Tail(path), value))

-----------------------------------------------------------------------------
(* jigify.get_ref_info: the board as load sees it *)

\* A placed footprint: its reference, its library footprint name, whether it
\* has through-hole pads, and whether one of its fields starts with
\* "MountingHole".
is_mounting_hole(fp) == fp.th /\ fp.mh

RECURSIVE RefOrderFrom(_, _)
RefOrderFrom(brd, seen) ==
    IF brd = <<>> THEN <<>>
    ELSE LET fp == Head(brd)
         IN  IF fp.ref \in seen
             THEN RefOrderFrom(Tail(brd), seen)
             ELSE <<fp.ref>> \o RefOrderFrom(Tail(brd), seen \cup {fp.ref})

\* Keys of ref_map in insertion order
RefOrder(brd) == RefOrderFrom(brd, {})

RECURSIVE FpOrderFrom(_, _)
FpOrderFrom(brd, seen) ==
    IF brd = <<>> THEN <<>>
    ELSE LET fp == Head(brd)
         IN  IF is_mounting_hole(fp) \/ fp.footprint \in seen
             THEN FpOrderFrom(Tail(brd), seen)
             ELSE <<fp.footprint>> \o FpOrderFrom(Tail(brd), seen \cup {fp.footprint})

\* Keys of fp_map in insertion order
FpOrder(brd) == FpOrderFrom(brd, {})

get_ref_map(brd) ==
    [ref \in Range(RefOrder(brd)) |->
        LET i == CHOOSE j \in DOMAIN brd :
                    brd[j].ref = ref /\ \A k \in DOMAIN brd : brd[k].ref = ref => k <= j
        IN  [is_th |-> brd[i].th, footprint |-> brd[i].footprint]]

get_fp_map(brd) ==
    [kfp \in Range(FpOrder(brd)) |->
        LET users == SelectSeq(brd, LAMBDA fp : fp.footprint = kfp /\ ~is_mounting_hole(fp))
        IN  [is_th |-> users[1].th,
             refs |-> [i \in DOMAIN users |-> users[i].ref],
             alias |-> None,
             display_name |-> None,
             force_smd |-> B(FALSE)]]

get_mounting_holes(brd) ==
    LET holes == SelectSeq(brd, is_mounting_hole)
    IN  [i \in DOMAIN holes |-> holes[i].ref]

-----------------------------------------------------------------------------
(* jigconfig.load, lines 109-128: layering *)

UserSections == {"openscad", "3dprinter", "environment"}

\* cfg before the merge: the project file, or a copy of the built-in defaults
load_initial_cfg(project) ==
    IF project # None THEN project ELSE get_default

\* default_cfg after the user machine-level config was written over it
load_user_defaults(user) ==
    IF Truthy(user)
    THEN transfer_default_values(user, get_default, UserSections, TRUE)
    ELSE get_default

\* cfg after the merge of default_cfg into it
load_merge(dflt, tree) ==
    transfer_default_values(dflt, tree, DOMAIN dflt.d, FALSE)

-----------------------------------------------------------------------------
(* jigconfig.load, lines 130-152: basic validation *)

\* A check that accepts every string
check_enum_any_string(node, valid, key) ==
    IF node.t = "s" THEN NoError ELSE Raise("ValueError", key, valid)

check_enum(node, valid, key) ==
    IF node.t = "s" /\ node.s \in Range(valid)
    THEN NoError
    ELSE Raise("ValueError", key, valid)

\* Keys of TH.component_shell that the defaults do not have
unknown_shell_keys(tree, dflt) ==
    Keys(At(tree, <<"TH", "component_shell">>)) \ Keys(At(dflt, <<"TH", "component_shell">>))

\* The loop over TH.component_shell: a key the defaults lack reaches the test
\* against TH_ref_names, a name jigconfig.py never defines
check_shell_keys(tree, dflt) ==
    IF unknown_shell_keys(tree, dflt) = {}
    THEN NoError
    ELSE Raise("NameError", "TH_ref_names", <<>>)

FirstError(errs) ==
    LET bad == SelectSeq(errs, LAMBDA e : e # NoError)
    IN  IF bad = <<>> THEN NoError ELSE bad[1]

load_validate(tree, dflt) ==
    FirstError(<<
        check_enum(At(tree, <<"holder", "base", "type">>), valid_base_types,
                   "holder.base.type"),
        check_enum(At(tree, <<"jig", "type">>), valid_jig_types, "jig.type"),
        check_enum(At(tree, <<"TH", "component_shell", "shell_type">>),
                   valid_shell_types, "TH.component_shell.shell_type"),
        check_enum(At(tree, <<"TH", "component_shell", "insertion_direction">>),
                   valid_insertions, "TH.component_shell.insertion_direction"),
        check_shell_keys(tree, dflt) >>)

-----------------------------------------------------------------------------
(* jigconfig.load, lines 154-179: the footprint tree *)

\* The highest number of a generated alias
MaxAlias == 9

\* The aliases of a footprint section in the order the document lists them:
\* those a user wrote, then the generated ones
AliasOrder == <<"A", "">> \o [i \in 1..MaxAlias |-> "FP" \o ToString(i)]

\* Keys of cfg['footprint'] in iteration order
FootprintOrder(tree) ==
    SelectSeq(AliasOrder, LAMBDA a : a \in Keys(Get(tree, "footprint")))

\* The force_smd test of one footprint entry
check_force_smd(this_fp, is_th, alias) ==
    IF Has(this_fp, "force_smd") /\ ~is_th /\ Truthy(Get(this_fp, "force_smd"))
    THEN Raise("ValueError", "footprint." \o alias \o ".force_smd", <<>>)
    ELSE NoError

\* An alias is already recorded for the footprint
alias_taken(entry) == entry.alias # None

\* The loop over the keys of one footprint entry
check_footprint_keys(this_fp, alias) ==
    LET bad == Keys(this_fp) \ Range(valid_footprint_keys)
    IN  IF bad = {} THEN NoError
        ELSE Raise("ValueError",
                   "footprint." \o alias \o "." \o (CHOOSE k \in bad : TRUE), <<>>)

\* One iteration of the loop: the error it raises, and fp_map after it
footprint_entry(tree, fpm, alias) ==
    LET this_fp == At(tree, <<"footprint", alias>>)
        kfpn == Get(this_fp, "kicad_footprint")
        kfp == kfpn.s
        named == [fpm EXCEPT ![kfp].display_name =
                                IF Has(this_fp, "display_name")
                                THEN Get(this_fp, "display_name") ELSE S(kfp),
                             ![kfp].alias = S(alias)]
        forced == IF Has(this_fp, "force_smd") /\ fpm[kfp].is_th
                  THEN [named EXCEPT ![kfp].force_smd = Get(this_fp, "force_smd")]
                  ELSE named
    IN  IF ~Has(this_fp, "kicad_footprint")
        THEN [err |-> Raise("ValueError", "footprint." \o alias, <<>>), fp_map |-> fpm]
        ELSE IF ~(kfpn.t = "s" /\ kfp \in DOMAIN fpm)
        THEN [err |-> Raise("ValueError", "footprint." \o alias \o ".kicad_footprint", <<>>),
              fp_map |-> fpm]
        ELSE IF alias_taken(fpm[kfp])
        THEN [err |-> Raise("ValueError", kfp, <<>>), fp_map |-> fpm]
        ELSE IF check_force_smd(this_fp, fpm[kfp].is_th, alias) # NoError
        THEN [err |-> check_force_smd(this_fp, fpm[kfp].is_th, alias), fp_map |-> named]
        ELSE [err |-> check_footprint_keys(this_fp, alias), fp_map |-> forced]

RECURSIVE footprint_loop(_, _, _)
footprint_loop(tree, fpm, aliases) ==
    IF aliases = <<>> THEN [err |-> NoError, fp_map |-> fpm]
    ELSE LET r == footprint_entry(tree, fpm, Head(aliases))
         IN  IF r.err # NoError THEN r
             ELSE footprint_loop(tree, r.fp_map, Tail(aliases))

load_footprints(tree, fpm) == footprint_loop(tree, fpm, FootprintOrder(tree))

-----------------------------------------------------------------------------
(* jigconfig.load, lines 181-194: classification *)

\* A classification by pads alone
is_smd_only_by_pads(entry) == ~entry.is_th

is_smd_only(entry) == ~entry.is_th \/ Truthy(entry.force_smd)

RECURSIVE Concat(_)
Concat(seqs) == IF seqs = <<>> THEN <<>> ELSE Head(seqs) \o Concat(Tail(seqs))

classify_th_fp_list(fpm, order) ==
    SelectSeq(order, LAMBDA kfp : ~is_smd_only(fpm[kfp]))

classify_smd_fp_list(fpm, order) ==
    SelectSeq(order, LAMBDA kfp : is_smd_only(fpm[kfp]))

classify_smd_ref_list(fpm, order) ==
    LET smd == classify_smd_fp_list(fpm, order)
    IN  Concat([i \in DOMAIN smd |-> fpm[smd[i]].refs])

-----------------------------------------------------------------------------
(* jigconfig.generate_alias and load, lines 196-211: footprint defaults *)

\* A generator that does not look at the aliases in use
generate_alias_unchecked(idx, avoid_list) ==
    [alias |-> "FP" \o ToString(idx), idx |-> idx + 1]

RECURSIVE generate_alias(_, _)
generate_alias(idx, avoid_list) ==
    LET alias == "FP" \o ToString(idx)
    IN  IF alias \notin avoid_list
        THEN [alias |-> alias, idx |-> idx + 1]
        ELSE generate_alias(idx + 1, avoid_list)

\* this_fp with every inheritable key it lacks taken from TH.component_shell
inherit_footprint_keys(this_fp, shell) ==
    D(this_fp.d @@ [k \in Range(inheritable_footprint_keys) |-> Get(shell, k)])

\* The footprint has a usable alias already
has_alias(entry) == Truthy(entry.alias)

RECURSIVE propagate_loop(_, _, _, _)
propagate_loop(tree, fpm, idx, kfps) ==
    IF kfps = <<>> THEN [err |-> NoError, cfg |-> tree, fp_map |-> fpm, idx |-> idx]
    ELSE
      LET kfp == Head(kfps)
          shell == At(tree, <<"TH", "component_shell">>)
          gen == generate_alias(idx, Keys(Get(tree, "footprint")))
          alias == IF has_alias(fpm[kfp]) THEN fpm[kfp].alias.s ELSE gen.alias
          this_fp == IF has_alias(fpm[kfp])
                     THEN At(tree, <<"footprint", alias>>)
                     ELSE D([kicad_footprint |-> S(kfp), display_name |-> S(kfp)])
          fpm2 == IF has_alias(fpm[kfp]) THEN fpm
                  ELSE [fpm EXCEPT ![kfp].alias = S(alias)]
          idx2 == IF has_alias(fpm[kfp]) THEN idx ELSE gen.idx
          tree2 == SetAt(tree, <<"footprint", alias>>,
                         inherit_footprint_keys(this_fp, shell))
      IN  IF has_alias(fpm[kfp]) /\ ~Has(Get(tree, "footprint"), alias)
          THEN [err |-> Raise("KeyError", alias, <<>>),
                cfg |-> tree, fp_map |-> fpm, idx |-> idx]
          ELSE propagate_loop(tree2, fpm2, idx2, Tail(kfps))

load_propagate(tree, fpm, idx, th_fps) == propagate_loop(tree, fpm, idx, th_fps)

-----------------------------------------------------------------------------
(* jigconfig.load, lines 215-242: through-hole components *)

\* The ref's declared footprint against the board's
check_ref_footprint(ref_cfg, ref, footprint) ==
    IF Has(ref_cfg, "kicad_footprint") /\ Get(ref_cfg, "kicad_footprint") # S(footprint)
    THEN Raise("ValueError", "TH." \o ref \o ".kicad_footprint", <<>>)
    ELSE NoError

\* cfg['TH'][ref] with display_name, the footprint's values and zero deltas
\* for whatever it lacks
resolve_ref(ref_cfg, ref, fp_cfg) ==
    D(ref_cfg.d
      @@ [k \in {"display_name"} |-> S(ref)]
      @@ [k \in Range(TH_ref_params) |-> Get(fp_cfg, k)]
      @@ [k \in Range(TH_ref_params2) |-> N(0)])

RECURSIVE refs_loop(_, _, _, _, _, _)
refs_loop(tree, rmap, fpm, th_fps, thl, refs) ==
    IF refs = <<>> THEN [err |-> NoError, cfg |-> tree, th_ref_list |-> thl]
    ELSE
      LET ref == Head(refs)
          footprint == rmap[ref].footprint
          footprint_alias == fpm[footprint].alias.s
          known == Has(Get(tree, "TH"), ref)
          ref_cfg == IF known THEN At(tree, <<"TH", ref>>) ELSE EmptyDict
          e == IF known THEN check_ref_footprint(ref_cfg, ref, footprint) ELSE NoError
          tree2 == SetAt(tree, <<"TH", ref>>,
                         resolve_ref(ref_cfg, ref, At(tree, <<"footprint", footprint_alias>>)))
      IN  IF footprint \notin Range(th_fps)
          THEN refs_loop(tree, rmap, fpm, th_fps, thl, Tail(refs))
          ELSE IF e # NoError
          THEN [err |-> e, cfg |-> tree, th_ref_list |-> Append(thl, ref)]
          ELSE refs_loop(tree2, rmap, fpm, th_fps, Append(thl, ref), Tail(refs))

load_refs(tree, rmap, fpm, th_fps, refs) == refs_loop(tree, rmap, fpm, th_fps, <<>>, refs)

-----------------------------------------------------------------------------
(* jigconfig.expand_refs and load, lines 244-254: inclusion / exclusion *)

\* The names of a list that are neither a ref nor a key of fp_map
bad_names(name_list, refs, fpm) ==
    SelectSeq(name_list, LAMBDA name : name \notin refs /\ name \notin DOMAIN fpm)

\* What one name expands to
expand_name(name, refs, fpm) ==
    IF name \in refs THEN {name} ELSE Range(fpm[name].refs)

\* expand_refs: the error it raises, and the set its result lists (the order
\* of list(set(full)) is not determined by the code)
expand_refs(name_list, refs, fpm) ==
    IF bad_names(name_list, refs, fpm) # <<>>
    THEN [err |-> Raise("ValueError", bad_names(name_list, refs, fpm)[1], <<>>),
          full |-> {}]
    ELSE [err |-> NoError,
          full |-> UNION {expand_name(name_list[i], refs, fpm) : i \in DOMAIN name_list}]

Orderings(set) ==
    {seq \in [1..Cardinality(set) -> set] : Range(seq) = set}

\* A selection that applies refs_do_not_process after refs_process_only_these
load_select_both(tree, refs, fpm, thl) ==
    LET only == At(tree, <<"TH", "refs_process_only_these">>).l
        excl == At(tree, <<"TH", "refs_do_not_process">>).l
        rtp == expand_refs(only, refs, fpm)
        rtp_x == expand_refs(excl, refs, fpm)
        kept == IF Len(only) > 0 THEN rtp.full ELSE Range(thl)
    IN  IF Len(only) > 0 /\ rtp.err # NoError THEN [err |-> rtp.err, lists |-> {thl}]
        ELSE IF Len(only) > 0 /\ ~(rtp.full \subseteq Range(thl))
        THEN [err |-> Raise("ValueError", CHOOSE r \in rtp.full \ Range(thl) : TRUE, <<>>),
              lists |-> {thl}]
        ELSE IF rtp_x.err # NoError THEN [err |-> rtp_x.err, lists |-> {thl}]
        ELSE [err |-> NoError, lists |-> Orderings(kept \ rtp_x.full)]

\* The lists th_ref_list may be after the selection, and the error raised
load_select(tree, refs, fpm, thl) ==
    LET only == At(tree, <<"TH", "refs_process_only_these">>).l
        excl == At(tree, <<"TH", "refs_do_not_process">>).l
        rtp == expand_refs(only, refs, fpm)
        rtp_x == expand_refs(excl, refs, fpm)
        not_th == rtp.full \ Range(thl)
    IN  IF Len(only) > 0
        THEN IF rtp.err # NoError THEN [err |-> rtp.err, lists |-> {thl}]
             ELSE IF not_th # {}
             THEN [err |-> Raise("ValueError", CHOOSE r \in not_th : TRUE, <<>>),
                   lists |-> {thl}]
             ELSE [err |-> NoError, lists |-> Orderings(rtp.full)]
        ELSE IF Len(excl) > 0
        THEN IF rtp_x.err # NoError THEN [err |-> rtp_x.err, lists |-> {thl}]
             ELSE [err |-> NoError,
                   lists |-> {SelectSeq(thl, LAMBDA r : r \notin rtp_x.full)}]
        ELSE [err |-> NoError, lists |-> {thl}]

-----------------------------------------------------------------------------
(* jigconfig.load, lines 256-278: trimming *)

\* A trimming that drops no ref
trim_refs_none(tree, refs, thl) == tree

\* cfg['TH'] without the board refs that are not processed
trim_refs(tree, refs, thl) ==
    LET th == Get(tree, "TH")
        drop == {ref \in refs : ref \notin Range(thl) /\ ref \in Keys(th)}
    IN  Put(tree, "TH", D([k \in Keys(th) \ drop |-> th.d[k]]))

\* proc_th_footprints: the footprints of the processed refs (a list without
\* duplicates, in no determined order)
proc_th_footprints(tree, thl) ==
    {At(tree, <<"TH", thl[i], "kicad_footprint">>).s : i \in DOMAIN thl}

\* cfg['footprint'] without the entries of unused footprints
trim_footprints(tree, proc) ==
    LET fps == Get(tree, "footprint")
        keep == {alias \in Keys(fps) : Get(fps.d[alias], "kicad_footprint").s \in proc}
    IN  Put(tree, "footprint", D([k \in keep |-> fps.d[k]]))

\* The loop that reads display_name of every remaining footprint entry
check_display_names(tree) ==
    LET fps == Get(tree, "footprint")
    IN  IF \E alias \in Keys(fps) : ~Has(fps.d[alias], "display_name")
        THEN Raise("KeyError", "display_name", <<>>)
        ELSE NoError

\* display names written back to fp_map; of two entries for one footprint
\* the later one, which is the generated one, is written last
propagate_display_names(tree, fpm) ==
    LET fps == Get(tree, "footprint")
        entries(kfp) == {alias \in Keys(fps) : Get(fps.d[alias], "kicad_footprint") = S(kfp)}
        last(kfp) == IF fpm[kfp].alias.s \in entries(kfp) THEN fpm[kfp].alias.s
                     ELSE CHOOSE alias \in entries(kfp) : TRUE
    IN  [kfp \in DOMAIN fpm |->
            IF entries(kfp) = {} THEN fpm[kfp]
            ELSE [fpm[kfp] EXCEPT !.display_name = Get(fps.d[last(kfp)], "display_name")]]

-----------------------------------------------------------------------------
(* jigconfig.load, lines 280-288: the SMD tree *)

\* A Python int used as a dict key, next to the string keys of a document
IntKey(i) == "<int " \o ToString(i) \o ">"

\* Keys of default_cfg['SMD'] in the order of the built-in text
SMDKeyOrder(dflt) ==
    SelectSeq(SMD_default_value_keys, LAMBDA k : k \in Keys(Get(dflt, "SMD")))

\* The entry of an SMD ref the project file names: enumerate() pairs each
\* position with a key name, and the position is what is looked up and set
fill_smd_entry(entry, dflt) ==
    LET names == SMDKeyOrder(dflt)
    IN  D(entry.d @@ [k \in {IntKey(i - 1) : i \in DOMAIN names} |->
                        S(names[CHOOSE i \in DOMAIN names : IntKey(i - 1) = k])])

smd_entry(tree, dflt, ref) ==
    IF Has(Get(tree, "SMD"), ref)
    THEN fill_smd_entry(At(tree, <<"SMD", ref>>), dflt)
    ELSE Get(dflt, "SMD")

RECURSIVE smd_loop(_, _, _)
smd_loop(tree, dflt, refs) ==
    IF refs = <<>> THEN tree
    ELSE smd_loop(SetAt(tree, <<"SMD", Head(refs)>>, smd_entry(tree, dflt, Head(refs))),
                  dflt, Tail(refs))

load_smd(tree, dflt, smd_refs) == smd_loop(tree, dflt, smd_refs)

-----------------------------------------------------------------------------
(* The run: jigify.py lines 518-548 around jigconfig.load *)

Fail(e) == pc' = "raised" /\ err' = e

\* load, lines 109-128
LoadLayer ==
    /\ pc = "load"
    /\ LET dflt == load_user_defaults(user_cfg)
           merged == load_merge(dflt, load_initial_cfg(configFile))
       IN  /\ default_cfg' = dflt
           /\ IF merged = TypeErrorNode
              THEN cfg' = load_initial_cfg(configFile)
                   /\ Fail(Raise("TypeError", "transfer_default_values", <<>>))
              ELSE cfg' = merged /\ pc' = "validate" /\ UNCHANGED err
    /\ UNCHANGED <<board, ref_map, fp_map, mounting_holes, configFile, user_cfg,
                   alias_idx, th_fp_list, smd_ref_list, th_ref_list, used_th_fp>>
    /\ UNCHANGED later

\* load, lines 130-152
LoadValidate ==
    /\ pc = "validate"
    /\ IF load_validate(cfg, default_cfg) # NoError
       THEN Fail(load_validate(cfg, default_cfg))
       ELSE pc' = "footprints" /\ UNCHANGED err
    /\ UNCHANGED <<board, ref_map, fp_map, mounting_holes, configFile, user_cfg,
                   default_cfg, cfg, alias_idx, th_fp_list, smd_ref_list,
                   th_ref_list, used_th_fp>>
    /\ UNCHANGED later

\* load, lines 154-179
LoadFootprints ==
    /\ pc = "footprints"
    /\ LET r == load_footprints(cfg, fp_map)
       IN  /\ fp_map' = r.fp_map
           /\ IF r.err # NoError THEN Fail(r.err)
              ELSE pc' = "classify" /\ UNCHANGED err
    /\ UNCHANGED <<board, ref_map, mounting_holes, configFile, user_cfg,
                   default_cfg, cfg, alias_idx, th_fp_list, smd_ref_list,
                   th_ref_list, used_th_fp>>
    /\ UNCHANGED later

\* load, lines 181-194
LoadClassify ==
    /\ pc = "classify"
    /\ th_fp_list' = classify_th_fp_list(fp_map, FpOrder(board))
    /\ smd_ref_list' = classify_smd_ref_list(fp_map, FpOrder(board))
    /\ pc' = "propagate"
    /\ UNCHANGED <<board, ref_map, fp_map, mounting_holes, configFile, user_cfg,
                   default_cfg, cfg, alias_idx, th_ref_list, used_th_fp, err>>
    /\ UNCHANGED later

\* load, lines 196-211
LoadPropagate ==
    /\ pc = "propagate"
    /\ LET r == load_propagate(cfg, fp_map, alias_idx, th_fp_list)
       IN  /\ cfg' = r.cfg /\ fp_map' = r.fp_map /\ alias_idx' = r.idx
           /\ IF r.err # NoError THEN Fail(r.err)
              ELSE pc' = "refs" /\ UNCHANGED err
    /\ UNCHANGED <<board, ref_map, mounting_holes, configFile, user_cfg,
                   default_cfg, th_fp_list, smd_ref_list, th_ref_list,
                   used_th_fp>>
    /\ UNCHANGED later

\* load, lines 215-242
LoadRefs ==
    /\ pc = "refs"
    /\ LET r == load_refs(cfg, ref_map, fp_map, th_fp_list, RefOrder(board))
       IN  /\ cfg' = r.cfg
           /\ th_ref_list' = r.th_ref_list
           /\ IF r.err # NoError THEN Fail(r.err)
              ELSE pc' = "select" /\ UNCHANGED err
    /\ UNCHANGED <<board, ref_map, fp_map, mounting_holes, configFile, user_cfg,
                   default_cfg, alias_idx, th_fp_list, smd_ref_list, used_th_fp>>
    /\ UNCHANGED later

\* load, lines 244-254
LoadSelect ==
    /\ pc = "select"
    /\ LET r == load_select(cfg, DOMAIN ref_map, fp_map, th_ref_list)
       IN  /\ th_ref_list' \in r.lists
           /\ IF r.err # NoError THEN Fail(r.err)
              ELSE pc' = "trim" /\ UNCHANGED err
    /\ UNCHANGED <<board, ref_map, fp_map, mounting_holes, configFile, user_cfg,
                   default_cfg, cfg, alias_idx, th_fp_list, smd_ref_list, used_th_fp>>
    /\ UNCHANGED later

\* load, lines 256-278
LoadTrim ==
    /\ pc = "trim"
    /\ LET trimmed == trim_refs(cfg, DOMAIN ref_map, th_ref_list)
           proc == proc_th_footprints(trimmed, th_ref_list)
           kept == trim_footprints(trimmed, proc)
       IN  /\ cfg' = kept
           /\ used_th_fp' = proc
           /\ IF check_display_names(kept) # NoError
              THEN Fail(check_display_names(kept)) /\ UNCHANGED fp_map
              ELSE /\ fp_map' = propagate_display_names(kept, fp_map)
                   /\ pc' = "smd"
                   /\ UNCHANGED err
    /\ UNCHANGED <<board, ref_map, mounting_holes, configFile, user_cfg,
                   default_cfg, alias_idx, th_fp_list, smd_ref_list, th_ref_list>>
    /\ UNCHANGED later

\* load, lines 280-288
LoadSMD ==
    /\ pc = "smd"
    /\ cfg' = load_smd(cfg, default_cfg, smd_ref_list)
    /\ pc' = "loaded"
    /\ UNCHANGED <<board, ref_map, fp_map, mounting_holes, configFile, user_cfg,
                   default_cfg, alias_idx, th_fp_list, smd_ref_list, th_ref_list,
                   used_th_fp, err>>
    /\ UNCHANGED later

\* A driver that goes on with what load left behind
driver_except_continue(e) == "loaded"

\* jigify.py lines 528-532: only ValueError is caught and reported
driver_except(e) == IF e.kind = "ValueError" THEN "reported" ELSE "traceback"

DriverExcept ==
    /\ pc = "raised"
    /\ pc' = driver_except(err)
    /\ UNCHANGED <<board, ref_map, fp_map, mounting_holes, configFile, user_cfg,
                   default_cfg, cfg, alias_idx, th_fp_list, smd_ref_list,
                   th_ref_list, used_th_fp, err>>
    /\ UNCHANGED later

\* jigify.py lines 543-548: the one shell-type test of the driver
driver_shell_type_ok(tree) ==
    At(tree, <<"TH", "component_shell", "shell_type">>) # S("tight")

\* jigify.py lines 535-605: from the resolved config to the start of the
\* geometry work (load_3d_models and the shell synthesis after it)
DriverStart ==
    /\ pc = "loaded"
    /\ pc' = IF driver_shell_type_ok(cfg) THEN "synthesis" ELSE "reported"
    /\ UNCHANGED <<board, ref_map, fp_map, mounting_holes, configFile, user_cfg,
                   default_cfg, cfg, alias_idx, th_fp_list, smd_ref_list,
                   th_ref_list, used_th_fp, err>>
    /\ UNCHANGED later

\* The number of calls of load in one process
MaxRuns == 2

\* What a second call of load is given: the same project file with the very
\* board data of the first call, the same project file with board data read
\* again, or the tree the first call returned with board data read again
Reruns == {"same data", "fresh data", "resolved tree"}

\* load is called again in the process that called it before: the module
\* global _alias_idx (line 78) and, with the same objects, fp_map keep what
\* the first call left in them
LoadAgain ==
    /\ pc = "loaded"
    /\ run < MaxRuns
    /\ \E mode \in Reruns :
          /\ first' = [mode |-> mode, configFile |-> configFile, cfg |-> cfg,
                       fp_map |-> fp_map, th_ref_list |-> th_ref_list,
                       smd_ref_list |-> smd_ref_list, used_th_fp |-> used_th_fp]
          /\ configFile' = IF mode = "resolved tree" THEN cfg ELSE configFile
          /\ fp_map' = IF mode = "same data" THEN fp_map ELSE get_fp_map(board)
    /\ run' = run + 1
    /\ pc' = "load"
    /\ default_cfg' = None
    /\ cfg' = None
    /\ th_fp_list' = <<>>
    /\ smd_ref_list' = <<>>
    /\ th_ref_list' = <<>>
    /\ used_th_fp' = {}
    /\ UNCHANGED <<board, ref_map, mounting_holes, user_cfg, alias_idx, err, hole,
                   shapes, jig>>

Next ==
    \/ LoadLayer
    \/ LoadValidate
    \/ LoadFootprints
    \/ LoadClassify
    \/ LoadPropagate
    \/ LoadRefs
    \/ LoadSelect
    \/ LoadTrim
    \/ LoadSMD
    \/ DriverExcept
    \/ DriverStart
    \/ LoadAgain

\* The state when load is called for the first time in a process
Start(brd, project, user) ==
    /\ pc = "load"
    /\ board = brd
    /\ ref_map = get_ref_map(brd)
    /\ fp_map = get_fp_map(brd)
    /\ mounting_holes = get_mounting_holes(brd)
    /\ configFile = project
    /\ user_cfg = user
    /\ default_cfg = None
    /\ cfg = None
    /\ alias_idx = 1
    /\ th_fp_list = <<>>
    /\ smd_ref_list = <<>>
    /\ th_ref_list = <<>>
    /\ used_th_fp = {}
    /\ err = NoError
    /\ run = 1
    /\ first = None
    /\ hole = None
    /\ shapes = None
    /\ jig = None

-----------------------------------------------------------------------------
(* Inputs *)

MaxRefs == 2
MaxEntries == 2

Absent == [t |-> "absent"]

\* A table of the given keys, without those chosen absent
Table(f) == D([k \in {k \in DOMAIN f : f[k] # Absent} |-> f[k]])

\* Library footprints: K1 and K3 have through-hole pads, K2 has none; K9 is
\* on no board
ThPads(kfp) == kfp \in {"K1", "K3"}

Placements ==
    {[footprint |-> "K1", th |-> TRUE, mh |-> FALSE],
     [footprint |-> "K1", th |-> TRUE, mh |-> TRUE],
     [footprint |-> "K2", th |-> FALSE, mh |-> FALSE],
     [footprint |-> "K3", th |-> TRUE, mh |-> FALSE]}

RefName(i) == "R" \o ToString(i)

Boards ==
    UNION {{[i \in 1..n |-> [ref |-> RefName(i), footprint |-> p[i].footprint,
                             th |-> p[i].th, mh |-> p[i].mh]]
            : p \in [1..n -> Placements]} : n \in 1..MaxRefs}

\* Footprint entries a project file may hold
EntryChoices ==
    {EmptyDict, D([kicad_footprint |-> S("K9")])}
    \cup {Table([kicad_footprint |-> S(kfp), force_smd |-> fs, display_name |-> dn])
            : kfp \in {"K1", "K2"},
              fs \in {Absent, B(TRUE), B(FALSE)},
              dn \in {Absent, S("Name")}}

UserAliases == {"A", "", "FP1"}

FootprintSections(n) ==
    UNION {[als -> EntryChoices]
            : als \in {x \in SUBSET UserAliases : Cardinality(x) <= n}}

\* Project files with a footprint section, and those of at most one entry
\* also with TH.component_shell.force_smd set
Init ==
    \/ \E brd \in Boards, fps \in FootprintSections(MaxEntries) :
            Start(brd, D([footprint |-> D(fps)]), inbuilt_user_config)
    \/ \E brd \in Boards, fps \in FootprintSections(MaxEntries - 1) :
            Start(brd,
                  D([footprint |-> D(fps),
                     TH |-> D([component_shell |-> D([force_smd |-> B(TRUE)])])]),
                  inbuilt_user_config)

Spec == Init /\ [][Next]_vars

-----------------------------------------------------------------------------
(* Layering: user machine-level configs and project files over a fixed board *)

\* R1 is a through-hole part, R2 a surface-mount part
SmallBoard ==
    <<[ref |-> "R1", footprint |-> "K1", th |-> TRUE, mh |-> FALSE],
      [ref |-> "R2", footprint |-> "K2", th |-> FALSE, mh |-> FALSE]>>

\* What load_user_config may have read from the user's config.toml (an empty
\* file gives the empty table)
UserConfigs ==
    {EmptyDict}
    \cup {Table(("openscad" :> os) @@ ("3dprinter" :> pr) @@ ("environment" :> env))
            : os \in {Absent,
                      D([binary |-> S("/opt/openscad")]),
                      D([binary |-> S("/opt/openscad"), use_manifold |-> B(TRUE)])},
              pr \in {Absent,
                      D([min_printable_hole_area |-> N(150)]),
                      D([min_printable_hole_area |-> N(200), corner_dia |-> N(40)]),
                      D([corner_dia |-> N(40)])},
              env \in {Absent,
                       EmptyDict,
                       D([KICAD8_3DMODEL_DIR |-> S("/usr/share/kicad/3dmodels")])}}

LayerProjects ==
    {None}
    \cup {Table(("3dprinter" :> pr) @@ ("pcb" :> pcb) @@ ("holder" :> holder)
                @@ ("openscad" :> os))
            : pr \in {Absent,
                      D([min_printable_hole_area |-> N(300)]),
                      D([corner_dia |-> N(100)])},
              pcb \in {Absent, D([thickness |-> N(100)]), N(5)},
              holder \in {Absent,
                          D([base |-> D([type |-> S("mesh")])]),
                          D([pcb_gap |-> N(50), base |-> D([thickness |-> N(200)])])},
              os \in {Absent, D([use_manifold |-> B(TRUE)])}}

InitLayer ==
    \E project \in LayerProjects, user \in UserConfigs :
        Start(SmallBoard, project, user)

SpecLayer == InitLayer /\ [][Next]_vars

\* Every key path of a tree, down to its leaves
RECURSIVE AllPaths(_)
AllPaths(node) ==
    IF ~IsDict(node) THEN {<<>>}
    ELSE {<<>>} \cup UNION {{<<k>> \o p : p \in AllPaths(node.d[k])} : k \in DOMAIN node.d}

IsLeafAt(node, path) == Defined(node, path) /\ ~IsDict(At(node, path))

\* The merge of load has just been done, with a project file given
Merged == pc = "validate" /\ configFile # None

\* C1: merging the project file over the defaults fills in what is missing,
\* section by section: a value the project file sets is the resolved value,
\* and a default at a key path the project file does not set is the resolved
\* value.
C1_MergeFillsMissing ==
    Merged =>
        /\ \A path \in AllPaths(configFile) :
              IsLeafAt(configFile, path) =>
                  Defined(cfg, path) /\ At(cfg, path) = At(configFile, path)
        /\ \A path \in AllPaths(default_cfg) :
              ~Defined(configFile, path) =>
                  Defined(cfg, path) /\ At(cfg, path) = At(default_cfg, path)

\* A project file that sets one key of a nested section: its value stands,
\* and the sibling keys come from the defaults
C1_Witness ==
    /\ Merged
    /\ IsLeafAt(configFile, <<"holder", "base", "type">>)
    /\ ~Defined(configFile, <<"holder", "base", "thickness">>)
    /\ ~Defined(configFile, <<"holder", "pcb_gap">>)
    /\ At(cfg, <<"holder", "base", "type">>) = S("mesh")
    /\ At(cfg, <<"holder", "base", "thickness">>) = N(100)
    /\ At(cfg, <<"holder", "pcb_gap">>) = N(30)

\* The user machine-level keys of the three sections
UserKeyPaths ==
    IF Truthy(user_cfg)
    THEN {path \in AllPaths(user_cfg) :
            Len(path) = 2 /\ path[1] \in UserSections}
    ELSE {}

\* C2: for every key of openscad, 3dprinter and environment that the user
\* machine-level config sets and the project file does not set (also when no
\* project file is given), the effective value is the user's value.
C2_UserDefaultsEffective ==
    pc \notin {"load", "raised", "reported", "traceback"} =>
        \A path \in UserKeyPaths :
            (configFile = None \/ ~Defined(configFile, path)) =>
                Defined(cfg, path) /\ At(cfg, path) = At(user_cfg, path)

\* The settings the driver and the shell synthesizer read from the resolved
\* config (jigify.py lines 175, 331, 543-568, 578)
DriverReads ==
    {<<"pcb", "thickness">>, <<"pcb", "tesellate_edge_cuts_curve">>,
     <<"TH", "component_shell", "shell_clearance_from_pcb">>,
     <<"TH", "component_shell", "shell_type">>,
     <<"TH", "component_shell", "shell_gap">>,
     <<"TH", "component_shell", "shell_thickness">>,
     <<"holder", "base", "thickness">>, <<"holder", "base", "line_width">>,
     <<"holder", "base", "line_height">>, <<"holder", "base", "perimeter_height">>,
     <<"holder", "pcb_gap">>, <<"holder", "pcb_overlap">>, <<"holder", "perimeter">>,
     <<"holder", "forced_grooves">>, <<"holder", "groove_size">>,
     <<"TH", "refs_do_not_process">>, <<"TH", "refs_process_only_these">>,
     <<"jig", "type">>, <<"SMD", "clearance_from_shells">>, <<"SMD", "gap_from_shells">>,
     <<"environment">>,
     <<"3dprinter", "min_printable_hole_area">>, <<"3dprinter", "corner_dia">>}

\* C3: after a successful resolve no setting that a later stage reads is
\* left unset, 3dprinter.min_printable_hole_area and 3dprinter.corner_dia
\* included.
C3_NoSettingUnset ==
    pc \in {"loaded", "synthesis"} =>
        \A path \in DriverReads : Defined(cfg, path)

-----------------------------------------------------------------------------
(* Validation: enum values, unknown keys and nested shell types *)

ValidateProjects ==
    {Table([holder |-> Table([base |-> Table([type |-> bt])]),
            jig |-> Table([type |-> jt]),
            TH |-> Table([component_shell |->
                            Table([shell_type |-> st, insertion_direction |-> ins,
                                   shell_color |-> extra]),
                          R1 |-> IF rst = Absent THEN Absent ELSE D([shell_type |-> rst])]),
            footprint |-> Table([A |-> IF fst = Absent THEN Absent
                                       ELSE D([kicad_footprint |-> S("K1"),
                                               display_name |-> S("Header"),
                                               shell_type |-> fst])])])
        : bt \in {Absent, S("mesh"), S("hexagons")},
          jt \in {Absent, S("component_fitting"), S("SMD_soldering")},
          st \in {Absent, S("wiggle"), S("fitting_flower"), S("tight")},
          ins \in {Absent, S("bottom"), S("side")},
          extra \in {Absent, S("red")},
          rst \in {Absent, S("courtyard"), S("tight")},
          fst \in {Absent, S("wiggle"), S("tight")}}

InitValidate ==
    \E project \in ValidateProjects :
        Start(SmallBoard, project, inbuilt_user_config)

SpecValidate == InitValidate /\ [][Next]_vars

\* The four enum settings and the values the documentation allows for each
EnumKeys ==
    {"holder.base.type", "jig.type", "TH.component_shell.shell_type",
     "TH.component_shell.insertion_direction"}

EnumPath(key) ==
    CASE key = "holder.base.type" -> <<"holder", "base", "type">>
      [] key = "jig.type" -> <<"jig", "type">>
      [] key = "TH.component_shell.shell_type" -> <<"TH", "component_shell", "shell_type">>
      [] key = "TH.component_shell.insertion_direction" ->
            <<"TH", "component_shell", "insertion_direction">>

EnumAllowed(key) ==
    CASE key = "holder.base.type" -> {"x_lines", "y_lines", "griddish", "mesh", "solid"}
      [] key = "jig.type" -> {"TH_soldering", "component_fitting"}
      [] key = "TH.component_shell.shell_type" ->
            {"wiggle", "fitting", "fitting_flower", "courtyard"}
      [] key = "TH.component_shell.insertion_direction" -> {"top", "bottom"}

\* The enum settings of the merged config that are outside their allowed set
BadEnums ==
    {key \in EnumKeys :
        ~(At(cfg, EnumPath(key)).t = "s" /\ At(cfg, EnumPath(key)).s \in EnumAllowed(key))}

\* load is past its basic validation
Validated == pc \notin {"load", "validate"} /\ err.kind # "TypeError"

\* C4: load fails with a configuration error naming the key and its allowed
\* values exactly when one of the four enum settings of the merged config is
\* outside its allowed set; with all four inside, none of the four checks
\* fails.
C4_EnumValidation ==
    Validated =>
        /\ BadEnums # {} =>
              /\ pc \in {"raised", "reported"}
              /\ err.kind = "ValueError"
              /\ err.key \in BadEnums
              /\ Range(err.allowed) = EnumAllowed(err.key)
        /\ BadEnums = {} => err.key \notin EnumKeys

C4_Witness ==
    /\ pc = "reported"
    /\ BadEnums = {"TH.component_shell.insertion_direction"}
    /\ err.key = "TH.component_shell.insertion_direction"

\* The shell types the synthesizer and the emitted script implement
\* (jigify.py lines 902 and 1158-1186)
ImplementedShellTypes == {"wiggle", "fitting", "courtyard"}

\* C5: no component reaches shell synthesis with a shell type that is
\* unknown or not implemented, wherever the value was set.
C5_NoUnsupportedShellType ==
    pc = "synthesis" =>
        \A i \in DOMAIN th_ref_list :
            LET st == At(cfg, <<"TH", th_ref_list[i], "shell_type">>)
            IN  st.t = "s" /\ st.s \in ImplementedShellTypes

\* Keys the project file puts in TH.component_shell that are no
\* component-shell setting
UnknownShellKeys ==
    IF configFile # None /\ Defined(configFile, <<"TH", "component_shell">>)
    THEN Keys(At(configFile, <<"TH", "component_shell">>))
            \ {"shell_type", "insertion_direction", "shell_thickness", "shell_gap",
               "shell_clearance_from_pcb", "corner_cut_width", "min_petal_length",
               "shell_wrapper_thickness", "shell_wrapper_height", "corner_cut_depth",
               "force_smd"}
    ELSE {}

\* C6: an unknown key inside TH.component_shell makes load fail with the
\* configuration error the driver reports, carrying TH.component_shell.<key>;
\* it never surfaces as another kind of error.
C6_UnknownShellKeyRejected ==
    (Validated /\ UnknownShellKeys # {}) =>
        /\ pc \in {"raised", "reported"}
        /\ err.kind = "ValueError"
        /\ BadEnums = {} =>
              err.key \in {"TH.component_shell." \o k : k \in UnknownShellKeys}

-----------------------------------------------------------------------------
(* Footprint entries, classification and aliases *)

\* The footprint entries of the project file
FileEntries ==
    IF configFile # None /\ Has(configFile, "footprint")
    THEN Get(configFile, "footprint").d ELSE <<>>

Targets(entry, kfp) ==
    Has(entry, "kicad_footprint") /\ Get(entry, "kicad_footprint") = S(kfp)

\* load is past the loop over the footprint entries
FootprintsChecked == pc \notin {"load", "validate", "footprints"}

Rejected == pc \in {"raised", "reported"} /\ err.kind = "ValueError"

\* Entries that set force_smd on a board footprint without through-hole pads
ForceSmdOnSmd ==
    {alias \in DOMAIN FileEntries :
        /\ Has(FileEntries[alias], "force_smd")
        /\ \E kfp \in DOMAIN fp_map : ~ThPads(kfp) /\ Targets(FileEntries[alias], kfp)}

\* C7: a force_smd setting on a footprint without through-hole pads is
\* rejected with a configuration error naming that footprint, whatever its
\* value.
C7_ForceSmdOnSmdRejected ==
    (FootprintsChecked /\ ForceSmdOnSmd # {}) =>
        /\ Rejected
        /\ Cardinality(DOMAIN FileEntries) = 1 =>
              err.key \in {"footprint." \o alias \o ".force_smd" : alias \in ForceSmdOnSmd}

\* Pairs of entries that name the same kicad_footprint
SameFootprint(tree) ==
    {pair \in Keys(Get(tree, "footprint")) \X Keys(Get(tree, "footprint")) :
        /\ pair[1] # pair[2]
        /\ Has(At(tree, <<"footprint", pair[1]>>), "kicad_footprint")
        /\ Has(At(tree, <<"footprint", pair[2]>>), "kicad_footprint")
        /\ At(tree, <<"footprint", pair[1], "kicad_footprint">>)
             = At(tree, <<"footprint", pair[2], "kicad_footprint">>)}

\* C8: two footprint entries naming one kicad_footprint make load fail with
\* a configuration error, so after a successful load no two entries of the
\* resolved footprint section target one footprint.
C8_OneAliasPerFootprint ==
    /\ (FootprintsChecked /\ SameFootprint(configFile) # {}) => Rejected
    /\ pc \in {"loaded", "synthesis"} => SameFootprint(cfg) = {}

\* The project file's own entry for the footprint sets force_smd to a true value
Forced(kfp) ==
    \E alias \in DOMAIN FileEntries :
        /\ Targets(FileEntries[alias], kfp)
        /\ Has(FileEntries[alias], "force_smd")
        /\ Truthy(Get(FileEntries[alias], "force_smd"))

SmdOnly(kfp) == ~ThPads(kfp) \/ Forced(kfp)

\* The through-hole candidates have just been collected
Collected == pc = "select"

ClassifiedAsClaimed ==
    \A kfp \in DOMAIN fp_map : (kfp \notin Range(th_fp_list)) <=> SmdOnly(kfp)

Propagated == pc = "refs"

AliasOf(kfp) == fp_map[kfp].alias

\* C10: after footprint default propagation every through-hole footprint
\* has an alias, the aliases are pairwise distinct, and an alias that was
\* generated is none of the aliases the project file wrote.
C10_AliasesUnique ==
    Propagated =>
        /\ \A kfp \in Range(th_fp_list) :
              /\ AliasOf(kfp) # None
              /\ Has(Get(cfg, "footprint"), AliasOf(kfp).s)
              /\ Targets(At(cfg, <<"footprint", AliasOf(kfp).s>>), kfp)
        /\ \A k1, k2 \in Range(th_fp_list) : k1 # k2 => AliasOf(k1) # AliasOf(k2)
        /\ \A kfp \in Range(th_fp_list) :
              (~\E alias \in DOMAIN FileEntries :
                    alias = AliasOf(kfp).s /\ Targets(FileEntries[alias], kfp))
                => AliasOf(kfp).s \notin DOMAIN FileEntries

\* One through-hole footprint keeps the alias FP1 the project file gave
\* it, and the other one gets the generated alias FP2
C10_Witness ==
    /\ Propagated
    /\ \E k1, k2 \in Range(th_fp_list) :
          /\ "FP1" \in DOMAIN FileEntries /\ Targets(FileEntries["FP1"], k1)
          /\ AliasOf(k1) = S("FP1") /\ AliasOf(k2) = S("FP2")

-----------------------------------------------------------------------------
(* A second call of load *)

Failed == pc \in {"raised", "reported", "traceback"}

\* load is called again with the project file of the first call
Repeated == run > 1 /\ first.mode \in {"same data", "fresh data"}

\* The footprints the first call generated an alias for
GeneratedBefore ==
    {kfp \in DOMAIN first.fp_map :
        /\ first.fp_map[kfp].alias # None
        /\ ~\E alias \in DOMAIN FileEntries :
              alias = first.fp_map[kfp].alias.s /\ Targets(FileEntries[alias], kfp)}

\* C11: a repeated run of load over the same board with the same
\* configuration succeeds and gives every footprint without an explicit
\* alias the generated alias of the first run.
C11_AliasesRepeat ==
    Repeated =>
        /\ ~Failed
        /\ pc \in {"refs", "select", "trim", "smd", "loaded", "synthesis"} =>
              \A kfp \in GeneratedBefore : AliasOf(kfp) = first.fp_map[kfp].alias

\* The same with board data read again for the second call: only the
\* counter of generate_alias is left over from the first call
C11_FreshDataRepeat ==
    (Repeated /\ first.mode = "fresh data"
       /\ pc \in {"refs", "select", "trim", "smd", "loaded", "synthesis"})
        => \A kfp \in GeneratedBefore : AliasOf(kfp) = first.fp_map[kfp].alias

-----------------------------------------------------------------------------
(* Per-ref values: project files with footprint, TH and SMD entries *)

\* R1 and R2 are through-hole parts of one footprint, R3 is surface-mount
RefBoard ==
    <<[ref |-> "R1", footprint |-> "K1", th |-> TRUE, mh |-> FALSE],
      [ref |-> "R2", footprint |-> "K1", th |-> TRUE, mh |-> FALSE],
      [ref |-> "R3", footprint |-> "K2", th |-> FALSE, mh |-> FALSE]>>

\* An entry for footprint K1
RefFootprintEntries ==
    {Table([kicad_footprint |-> S("K1"), display_name |-> S("Header"),
            shell_gap |-> gap, shell_type |-> st])
        : gap \in {Absent, N(20)}, st \in {Absent, S("wiggle")}}

\* No entry, or one entry under the alias A or under the empty alias
RefFootprintSections ==
    {<<>>} \cup UNION {[{alias} -> RefFootprintEntries] : alias \in {"A", ""}}

RefEntries ==
    {Absent}
    \cup {Table([delta_shell_gap |-> delta, shell_type |-> st, kicad_footprint |-> kfp])
            : delta \in {Absent, N(5), N(-5)},
              st \in {Absent, S("courtyard")},
              kfp \in {Absent, S("K1"), S("K3")}}

SmdRefEntries ==
    {Absent, EmptyDict, D([clearance_from_shells |-> N(70)]),
     D([clearance_from_shells |-> N(70), gap_from_shells |-> N(80)])}

RefProjects ==
    {Table([footprint |-> D(fps),
            TH |-> Table([component_shell |-> Table([shell_gap |-> gap]),
                          R1 |-> r1,
                          R3 |-> r3]),
            SMD |-> Table([R3 |-> smd])])
        : fps \in RefFootprintSections,
          gap \in {Absent, N(30)},
          r1 \in RefEntries,
          r3 \in {Absent, D([kicad_footprint |-> S("K1")]), D([kicad_footprint |-> S("K2")])},
          smd \in SmdRefEntries}

InitRefs ==
    \E project \in RefProjects : Start(RefBoard, project, inbuilt_user_config)

SpecRefs == InitRefs /\ [][Next]_vars

-----------------------------------------------------------------------------
(* jigify.py lines 883-939: the values written for each footprint and ref *)

\* <Var>_For_<alias>, written for every entry of cfg['footprint']
footprint_var(tree, alias, prop) == At(tree, <<"footprint", alias, prop>>)

\* Delta_<Var>_For_<ref>
delta_var(tree, this_ref, prop) == At(tree, <<"TH", this_ref, "delta_" \o prop>>)

\* Effective_<Var>_For_<ref> = <Var>_For_<alias> + Delta_<Var>_For_<ref>, the
\* alias being the one fp_map holds for the ref's footprint
effective_value(tree, rmap, fpm, this_ref, prop) ==
    footprint_var(tree, fpm[rmap[this_ref].footprint].alias.s, prop).n
        + delta_var(tree, this_ref, prop).n

NumericShellFields == {"shell_thickness", "shell_gap", "shell_clearance_from_pcb"}
EnumShellFields == {"shell_type", "insertion_direction"}

\* The value of the global component-shell default
GlobalValue(prop) ==
    IF Defined(configFile, <<"TH", "component_shell", prop>>)
    THEN At(configFile, <<"TH", "component_shell", prop>>)
    ELSE At(default_cfg, <<"TH", "component_shell", prop>>)

\* The value of the footprint's entry in the project file, the global
\* default when the entry (or the whole entry) is missing
FootprintValue(kfp, prop) ==
    LET given == {alias \in DOMAIN FileEntries :
                    Targets(FileEntries[alias], kfp) /\ Has(FileEntries[alias], prop)}
    IN  IF given # {}
        THEN Get(FileEntries[CHOOSE alias \in given : TRUE], prop)
        ELSE GlobalValue(prop)

RefDelta(ref, prop) ==
    IF Defined(configFile, <<"TH", ref, "delta_" \o prop>>)
    THEN At(configFile, <<"TH", ref, "delta_" \o prop>>).n
    ELSE 0

EffectiveAsClaimed ==
    \A i \in DOMAIN th_ref_list :
        LET ref == th_ref_list[i]
            kfp == ref_map[ref].footprint
        IN  /\ \A prop \in NumericShellFields :
                  effective_value(cfg, ref_map, fp_map, ref, prop)
                      = FootprintValue(kfp, prop).n + RefDelta(ref, prop)
            /\ \A prop \in EnumShellFields :
                  At(cfg, <<"TH", ref, prop>>)
                      = IF Defined(configFile, <<"TH", ref, prop>>)
                        THEN At(configFile, <<"TH", ref, prop>>)
                        ELSE FootprintValue(kfp, prop)

\* C12: for every processed through-hole ref each numeric shell field is the
\* footprint entry's value (the global default when the entry omits it) plus
\* the ref's delta (0 when none), and each enum field is the ref's override
\* when present and the footprint's value otherwise.
C12_EffectiveValues == pc = "synthesis" => EffectiveAsClaimed

\* C12 for project files whose footprint entries all have a non-empty alias
C12_NamedAliases ==
    (pc = "synthesis" /\ "" \notin DOMAIN FileEntries) => EffectiveAsClaimed

\* A ref with a delta and its own shell type on a footprint whose entry sets
\* the gap
C12_NamedWitness ==
    /\ pc = "synthesis" /\ run = 1
    /\ Defined(configFile, <<"footprint", "A", "shell_gap">>)
    /\ Defined(configFile, <<"TH", "R1", "shell_type">>)
    /\ RefDelta("R1", "shell_gap") = -5
    /\ effective_value(cfg, ref_map, fp_map, "R1", "shell_gap") = 15
    /\ effective_value(cfg, ref_map, fp_map, "R2", "shell_gap") = 20

-----------------------------------------------------------------------------
(* Declared footprints of refs *)

\* load is past the loop over the refs
RefsChecked ==
    pc \notin {"load", "validate", "footprints", "classify", "propagate", "refs"}

\* Board refs whose TH entry declares another footprint than the board's
Disagreeing ==
    {i \in DOMAIN board :
        /\ Defined(configFile, <<"TH", board[i].ref, "kicad_footprint">>)
        /\ At(configFile, <<"TH", board[i].ref, "kicad_footprint">>)
             # S(board[i].footprint)}

\* C13: for every board ref, whatever its classification, a declared
\* kicad_footprint that differs from the board's footprint makes load fail
\* with a configuration error.
C13_RefFootprintAgrees ==
    (RefsChecked /\ Disagreeing # {}) => Rejected

\* C13 for the refs of through-hole classified footprints
C13_CandidateRefs ==
    (RefsChecked /\ \E i \in Disagreeing : board[i].footprint \in Range(th_fp_list))
        => Rejected

C13_CandidateWitness ==
    /\ pc = "reported" /\ err.key = "TH.R1.kicad_footprint"
    /\ \E i \in Disagreeing : board[i].ref = "R1"

-----------------------------------------------------------------------------
(* Selection: project files with the two lists of TH *)

\* R1 and R2 share a through-hole footprint, R3 has another one, R4 is
\* surface-mount
SelectBoard ==
    <<[ref |-> "R1", footprint |-> "K1", th |-> TRUE, mh |-> FALSE],
      [ref |-> "R2", footprint |-> "K1", th |-> TRUE, mh |-> FALSE],
      [ref |-> "R3", footprint |-> "K3", th |-> TRUE, mh |-> FALSE],
      [ref |-> "R4", footprint |-> "K2", th |-> FALSE, mh |-> FALSE]>>

MaxNames == 2

\* A ref of each kind, a footprint by its KiCad name and by its alias, and a
\* name of nothing
SelectNames == {"R1", "R3", "R4", "K1", "A", "X9"}

NameLists == UNION {[1..n -> SelectNames] : n \in 0..MaxNames}

SelectProjects ==
    {Table([footprint |-> D([A |-> D([kicad_footprint |-> S("K1"),
                                     display_name |-> S("Header")])]),
            TH |-> Table([refs_process_only_these |-> IF only = <<>> THEN Absent ELSE L(only),
                          refs_do_not_process |-> IF excl = <<>> THEN Absent ELSE L(excl),
                          R4 |-> D([display_name |-> S("Pad")])])])
        : only \in NameLists, excl \in NameLists}

InitSelect ==
    \E project \in SelectProjects : Start(SelectBoard, project, inbuilt_user_config)

SpecSelect == InitSelect /\ [][Next]_vars

\* The two lists as the project file gives them
OnlyThese ==
    IF Defined(configFile, <<"TH", "refs_process_only_these">>)
    THEN At(configFile, <<"TH", "refs_process_only_these">>).l ELSE <<>>

DoNotProcess ==
    IF Defined(configFile, <<"TH", "refs_do_not_process">>)
    THEN At(configFile, <<"TH", "refs_do_not_process">>).l ELSE <<>>

BoardRefs == {board[i].ref : i \in DOMAIN board}

RefsUsing(kfp) == {board[i].ref : i \in {j \in DOMAIN board : board[j].footprint = kfp}}

\* A name is a ref, an alias of the footprint section or a footprint of the board
IsRefName(name) == name \in BoardRefs
IsAlias(name) ==
    name \in DOMAIN FileEntries /\ Has(FileEntries[name], "kicad_footprint")
IsFootprintName(name) == \E i \in DOMAIN board : board[i].footprint = name

Expansion(name) ==
    IF IsRefName(name) THEN {name}
    ELSE IF IsAlias(name) THEN RefsUsing(Get(FileEntries[name], "kicad_footprint").s)
    ELSE IF IsFootprintName(name) THEN RefsUsing(name)
    ELSE {}

ExpansionOf(names) == UNION {Expansion(names[i]) : i \in DOMAIN names}

Unmatched(names) ==
    {names[i] : i \in {j \in DOMAIN names :
        ~IsRefName(names[j]) /\ ~IsAlias(names[j]) /\ ~IsFootprintName(names[j])}}

\* The step of load that applies the lists
Selecting == pc = "select" /\ pc' # "select"

\* C14: with a non-empty refs_process_only_these every entry expands as a
\* ref (itself) or a footprint alias (the refs using the footprint), the
\* processed set is the union of the expansions, and load fails with a
\* configuration error exactly when an entry matches neither.
C14_ProcessOnlyThese ==
    [][(Selecting /\ OnlyThese # <<>>) =>
          /\ (pc' = "raised") <=> (Unmatched(OnlyThese) # {})
          /\ pc' = "raised" => err'.kind = "ValueError"
          /\ pc' # "raised" => Range(th_ref_list') = ExpansionOf(OnlyThese)]_vars

\* What the code matches a name against: the refs and the keys of fp_map
NamesKnown(names) ==
    \A i \in DOMAIN names : IsRefName(names[i]) \/ names[i] \in DOMAIN fp_map

\* C14 with footprints named by their KiCad name, and the refusal of refs
\* that are no through-hole candidates
C14_ByFootprintName ==
    [][(Selecting /\ OnlyThese # <<>>) =>
          /\ (pc' = "raised") <=>
                \/ ~NamesKnown(OnlyThese)
                \/ ~(ExpansionOf(OnlyThese) \subseteq Range(th_ref_list))
          /\ pc' = "raised" => err'.kind = "ValueError"
          /\ pc' # "raised" => Range(th_ref_list') = ExpansionOf(OnlyThese)]_vars

C14_Witness ==
    /\ pc = "trim" /\ run = 1
    /\ OnlyThese = <<"K1", "R3">>
    /\ Range(th_ref_list) = {"R1", "R2", "R3"}

C15_ExcludeWitness ==
    /\ pc = "trim" /\ run = 1
    /\ OnlyThese = <<>> /\ DoNotProcess = <<"K1", "R4">>
    /\ th_ref_list = <<"R3">>

-----------------------------------------------------------------------------
(* Trimming *)

\* The step of load that trims the tree, when it does not fail
Trimming == pc = "trim" /\ pc' = "smd"

ProcessedFootprints(refs) == {ref_map[refs[i]].footprint : i \in DOMAIN refs}

KfpOf(tree, alias) == At(tree, <<"footprint", alias, "kicad_footprint">>).s

\* C16: after inclusion/exclusion and trimming the resolved config has a TH
\* entry for a board ref exactly when the ref is processed, keeps a
\* footprint entry exactly when its kicad_footprint is used by a processed
\* ref, and the returned used footprints are the footprints of the
\* processed refs.
C16_TrimmedToProcessed ==
    [][Trimming =>
          /\ \A ref \in BoardRefs :
                Has(Get(cfg', "TH"), ref) <=> ref \in Range(th_ref_list')
          /\ Keys(Get(cfg', "footprint")) \subseteq Keys(Get(cfg, "footprint"))
          /\ \A alias \in Keys(Get(cfg, "footprint")) :
                Has(Get(cfg', "footprint"), alias)
                    <=> KfpOf(cfg, alias) \in ProcessedFootprints(th_ref_list')
          /\ \A kfp \in ProcessedFootprints(th_ref_list') :
                \E alias \in Keys(Get(cfg', "footprint")) : KfpOf(cfg', alias) = kfp
          /\ used_th_fp' = ProcessedFootprints(th_ref_list')]_vars

\* Only R3 is processed: the entries of R1, R2 and of the surface-mount R4
\* are gone, and so is the entry of footprint K1
C16_Witness ==
    /\ pc = "smd" /\ run = 1
    /\ th_ref_list = <<"R3">>
    /\ Has(Get(configFile, "TH"), "R4")
    /\ Keys(Get(cfg, "TH")) \cap BoardRefs = {"R3"}
    /\ Keys(Get(cfg, "footprint")) = {"FP1"}
    /\ used_th_fp = {"K3"}

-----------------------------------------------------------------------------
(* SMD entries *)

Resolved == pc \in {"loaded", "synthesis"}

\* The entry of an SMD ref is as stated: both fields under their names, the
\* project's value where the project file set one, the default of the same
\* name where not, and no other key
SmdEntryAsClaimed(ref) ==
    LET entry == At(cfg, <<"SMD", ref>>)
        given == IF Defined(configFile, <<"SMD", ref>>)
                 THEN At(configFile, <<"SMD", ref>>) ELSE EmptyDict
    IN  /\ Keys(entry) = Range(SMD_default_value_keys) \cup Keys(given)
        /\ \A k \in Range(SMD_default_value_keys) :
              Get(entry, k) = IF Has(given, k) THEN Get(given, k)
                              ELSE At(default_cfg, <<"SMD", k>>)

\* C17: every SMD-classified ref ends with a resolved SMD entry that has
\* clearance_from_shells and gap_from_shells, the project's value where it
\* set one and the SMD-section default of the same name otherwise, and no
\* other key.
C17_SmdEntriesFilled ==
    Resolved =>
        \A i \in DOMAIN smd_ref_list :
            /\ Defined(cfg, <<"SMD", smd_ref_list[i]>>)
            /\ SmdEntryAsClaimed(smd_ref_list[i])

\* C17 for the SMD refs the project file has no entry for
C17_WithoutProjectEntry ==
    Resolved =>
        \A i \in DOMAIN smd_ref_list :
            ~Defined(configFile, <<"SMD", smd_ref_list[i]>>) =>
                /\ Defined(cfg, <<"SMD", smd_ref_list[i]>>)
                /\ SmdEntryAsClaimed(smd_ref_list[i])

C17_WithoutProjectEntryWitness ==
    /\ Resolved /\ run = 1
    /\ smd_ref_list = <<"R3">>
    /\ ~Defined(configFile, <<"SMD", "R3">>)
    /\ At(cfg, <<"SMD", "R3", "gap_from_shells">>) = N(50)

-----------------------------------------------------------------------------
(* Resolving a resolved tree *)

\* load is called again with the tree the first call returned and board
\* data read again
Reresolved == run > 1 /\ first.mode = "resolved tree"

\* C18: resolving the tree a successful resolve returned against the same
\* board succeeds and returns a tree equal to its input, also on boards with
\* SMD refs.
C18_Idempotent ==
    Reresolved =>
        /\ ~Failed
        /\ Resolved => cfg = first.cfg

\* C18 on boards where the first call classified nothing as SMD
C18_WithoutSmdRefs ==
    (Reresolved /\ first.smd_ref_list = <<>>) =>
        /\ ~Failed
        /\ Resolved => cfg = first.cfg

-----------------------------------------------------------------------------
(* Failures end the run *)

\* The part of the run that loads 3D models, synthesizes geometry and writes
\* the output (jigify.py from line 535 on)
GeometryWork == pc = "synthesis"

\* C19: a configuration failure ends the run with an error before any 3D
\* model is loaded, any geometry is synthesized or any file is written:
\* after an exception of load the run only reports it and stops, and the
\* geometry work starts only from a load that returned without error.
C19_FailFast ==
    [][/\ pc = "raised" => pc' \in {"reported", "traceback"}
       /\ pc \in {"reported", "traceback"} => pc' = pc
       /\ GeometryWork' => (pc \in {"loaded", "synthesis"} /\ err = NoError)
       /\ err # NoError => err' = err]_vars

\* A configuration error was reported and the run is over
C19_Witness ==
    /\ pc = "reported"
    /\ err.kind = "ValueError"
    /\ cfg # None

-----------------------------------------------------------------------------
(* jigify.expand_small_hole, lines 171-191 *)

\* An opening is a rectangle, its sides in hundredths of a millimetre; a
\* polygon returned by buffer() is the rectangle with the offset it was grown
\* by.  Areas of openings are in 1e-4 mm^2 (hundredths squared).
Rect(w, h) == [w |-> w, h |-> h, offset |-> 0]

\* Polygon(...).buffer(r).area: the rectangle, a strip of width r along its
\* perimeter and four quarter discs, each a fan of 16 triangles (64 for the
\* whole disc, 32 * sin(pi / 32) = 3.1365 times r squared)
buffer_area(poly, r) ==
    poly.w * poly.h + 2 * (poly.w + poly.h) * r + (31365 * r * r) \div 10000

\* tripy.calculate_total_area(tripy.earclip(poly_verts))
total_area(poly) == poly.w * poly.h

search_steps == 10

\* offset_val of one step, in hundredths of a millimetre
offset_val(offset) == ((offset + 1) * 100) \div search_steps

\* The steps whose offset polygon reaches the threshold
enough(poly, threshold) ==
    {offset \in 0..(search_steps - 1) :
        buffer_area(poly, offset_val(offset)) >= threshold}

\* The threshold of the resolved config, in 1e-4 mm^2
printable_threshold(tree) ==
    At(tree, <<"3dprinter", "min_printable_hole_area">>).n * 100

expand_small_hole(poly_verts, area, tree) ==
    LET found == enough(poly_verts, printable_threshold(tree))
        first_found == CHOOSE offset \in found : \A other \in found : offset <= other
    IN  IF area < printable_threshold(tree) /\ found # {}
        THEN [poly_verts EXCEPT !.offset = offset_val(first_found)]
        ELSE poly_verts

ExpandSmallHole ==
    /\ pc = "synthesis"
    /\ hole # None
    /\ hole.result = None
    /\ hole' = [hole EXCEPT !.result = expand_small_hole(hole.poly, hole.area, cfg)]
    /\ UNCHANGED <<pc, board, ref_map, fp_map, mounting_holes, configFile, user_cfg,
                   default_cfg, cfg, alias_idx, th_fp_list, smd_ref_list,
                   th_ref_list, used_th_fp, err, run, first, shapes, jig>>

NextHole == ExpandSmallHole

\* Sides of openings and printable minimums (1.5 mm^2 is the built-in one)
Sides == {10, 50, 100, 120, 200, 400}
Minimums == {N(150), N(500), N(1000), N(5000)}

InitHole ==
    /\ pc = "synthesis"
    /\ board = <<>>
    /\ ref_map = <<>>
    /\ fp_map = <<>>
    /\ mounting_holes = <<>>
    /\ configFile = None
    /\ user_cfg = inbuilt_user_config
    /\ default_cfg = get_default
    /\ \E min \in Minimums :
          cfg = SetAt(get_default, <<"3dprinter", "min_printable_hole_area">>, min)
    /\ alias_idx = 1
    /\ th_fp_list = <<>>
    /\ smd_ref_list = <<>>
    /\ th_ref_list = <<>>
    /\ used_th_fp = {}
    /\ err = NoError
    /\ run = 1
    /\ first = None
    /\ shapes = None
    /\ jig = None
    /\ \E w \in Sides, h \in Sides :
          hole = [poly |-> Rect(w, h), area |-> total_area(Rect(w, h)), result |-> None]

SpecHole == InitHole /\ [][NextHole]_vars

Expanded == hole # None /\ hole.result # None

MinArea == printable_threshold(cfg)

\* C20: an opening whose area meets the minimum is returned unchanged; any
\* other is returned grown outward by the first offset of the sequence whose
\* area is at least the minimum.
C20_HoleExpansion ==
    Expanded =>
        IF hole.area >= MinArea
        THEN hole.result = hole.poly
        ELSE /\ hole.result.offset > 0
             /\ buffer_area(hole.poly, hole.result.offset) >= MinArea
             /\ \A r \in 1..(hole.result.offset - 1) :
                   r % 10 = 0 => buffer_area(hole.poly, r) < MinArea

\* C20 for the openings that an offset of at most 1 mm brings to the minimum
C20_WithinSearchRange ==
    (Expanded /\ buffer_area(hole.poly, 100) >= MinArea) =>
        IF hole.area >= MinArea
        THEN hole.result = hole.poly
        ELSE /\ hole.result.offset > 0
             /\ buffer_area(hole.poly, hole.result.offset) >= MinArea
             /\ \A r \in 1..(hole.result.offset - 1) :
                   r % 10 = 0 => buffer_area(hole.poly, r) < MinArea

\* A 1 mm x 0.5 mm opening grown by 0.3 mm to reach 1.5 mm^2
C20_WithinSearchRangeWitness ==
    /\ Expanded
    /\ hole.poly = Rect(100, 50) /\ MinArea = 15000
    /\ hole.result.offset = 30

-----------------------------------------------------------------------------
(* jigify.gen_fitting_pockets, lines 220-303 *)

\* A mesh is given by its Z levels: at each level its vertices are the four
\* corners of a rectangle centred on the part's axis.  The rectangles are
\* drawn from a chain (each holds the ones before it), so that every convex
\* hull met here is again such a rectangle, or one grown by buffer().
\* Areas: 0.16, 3.0, 3.3, 4.0, 12 and 30 mm^2.
Outlines ==
    {[w |-> 40, h |-> 40], [w |-> 200, h |-> 150], [w |-> 220, h |-> 150],
     [w |-> 250, h |-> 160], [w |-> 400, h |-> 300], [w |-> 600, h |-> 500]}

\* The Z values of the levels, the board plane being 0
Levels == {-30, 10, 70, 130}

\* mesh[mask]: the vertices of the mesh at one Z
verts_at(mesh, z_val) ==
    {[x |-> sx * (mesh[z_val].w \div 2), y |-> sy * (mesh[z_val].h \div 2), z |-> z_val] :
        sx \in {-1, 1}, sy \in {-1, 1}}

all_verts(mesh) == UNION {verts_at(mesh, z_val) : z_val \in DOMAIN mesh}

\* all_z[::-1]: the distinct Z values, highest first
RECURSIVE reverse_sorted(_)
reverse_sorted(zs) ==
    IF zs = {} THEN <<>>
    ELSE LET top == CHOOSE z \in zs : \A other \in zs : other <= z
         IN  <<top>> \o reverse_sorted(zs \ {top})

\* list.sort() of a z_list
RECURSIVE sorted(_)
sorted(zs) ==
    IF zs = {} THEN <<>>
    ELSE LET low == CHOOSE z \in zs : \A other \in zs : z <= other
         IN  <<low>> \o sorted(zs \ {low})

\* lines 227-253: the Z values within z_bin_size of a bin's first share the bin
RECURSIVE bin_loop(_, _, _, _, _)
bin_loop(mesh, reverse_z, i, z_bins, z_bin_size) ==
    IF i > Len(reverse_z) THEN z_bins
    ELSE LET z_val == reverse_z[i]
             result == verts_at(mesh, z_val)
             last == z_bins[Len(z_bins)]
         IN  IF last.start_z - z_val < z_bin_size
             THEN bin_loop(mesh, reverse_z, i + 1,
                           [z_bins EXCEPT ![Len(z_bins)] =
                               [start_z |-> last.start_z,
                                z_list |-> Append(last.z_list, z_val),
                                verts |-> last.verts \cup result]],
                           z_bin_size)
             ELSE bin_loop(mesh, reverse_z, i + 1,
                           Append(z_bins, [start_z |-> z_val,
                                           z_list |-> <<z_val>>,
                                           verts |-> result]),
                           z_bin_size)

\* Whether a point lies in a hull: within the rectangle, or within the offset
\* of it that buffer() added
inside(pt, hull) ==
    LET ax == IF pt.x < 0 THEN -pt.x ELSE pt.x
        ay == IF pt.y < 0 THEN -pt.y ELSE pt.y
        dx == IF 2 * ax > hull.w THEN 2 * ax - hull.w ELSE 0
        dy == IF 2 * ay > hull.h THEN 2 * ay - hull.h ELSE 0
    IN  dx * dx + dy * dy <= 4 * hull.offset * hull.offset

\* The rectangle spanned by vertices that are symmetric about the axis
extent(verts) ==
    LET far_x == CHOOSE v \in verts : \A o \in verts : o.x <= v.x
        far_y == CHOOSE v \in verts : \A o \in verts : o.y <= v.y
    IN  Rect(2 * far_x.x, 2 * far_y.y)

\* scipy.spatial.ConvexHull of a bin's vertices and the previous hull, for
\* the hulls that are rectangles or grown rectangles: the previous hull when
\* it holds every vertex, the vertices' rectangle when that holds the
\* previous hull whole.
ConvexHull(verts, prev) ==
    CASE prev = None -> extent(verts)
      [] prev # None /\ \A v \in verts : inside(v, prev) -> prev
      [] /\ prev # None
         /\ \E v \in verts : ~inside(v, prev)
         /\ extent(verts).w >= prev.w + 2 * prev.offset
         /\ extent(verts).h >= prev.h + 2 * prev.offset -> extent(verts)

\* tripy.calculate_total_area(tripy.earclip(hull_verts))
hull_area(hull) == buffer_area(hull, hull.offset)

\* line 274: the change of area that starts a new step, 1 mm^2
meaningful_change == 10000

\* hull_loop with a step started also when the change equals the threshold
RECURSIVE hull_loop_at_least(_, _, _, _)
hull_loop_at_least(z_bins, i, hull_bins, tree) ==
    IF i > Len(z_bins) THEN hull_bins
    ELSE LET this_bin == z_bins[i]
             n == Len(hull_bins)
             hull_verts == ConvexHull(this_bin.verts,
                                      IF n > 0 THEN hull_bins[n].hull ELSE None)
             area == hull_area(hull_verts)
             new_bin == [hull |-> expand_small_hole(hull_verts, area, tree),
                         area |-> area,
                         z_list |-> this_bin.z_list]
         IN  IF n > 0 /\ area < hull_bins[n].area + meaningful_change
             THEN hull_loop_at_least(z_bins, i + 1,
                                     [hull_bins EXCEPT ![n].z_list = @ \o this_bin.z_list],
                                     tree)
             ELSE hull_loop_at_least(z_bins, i + 1, Append(hull_bins, new_bin), tree)

\* lines 261-288
RECURSIVE hull_loop(_, _, _, _)
hull_loop(z_bins, i, hull_bins, tree) ==
    IF i > Len(z_bins) THEN hull_bins
    ELSE LET this_bin == z_bins[i]
             n == Len(hull_bins)
             hull_verts == ConvexHull(this_bin.verts,
                                      IF n > 0 THEN hull_bins[n].hull ELSE None)
             area == hull_area(hull_verts)
             new_bin == [hull |-> expand_small_hole(hull_verts, area, tree),
                         area |-> area,
                         z_list |-> this_bin.z_list]
         IN  IF n > 0
             THEN IF area > hull_bins[n].area + meaningful_change
                  THEN hull_loop(z_bins, i + 1, Append(hull_bins, new_bin), tree)
                  ELSE hull_loop(z_bins, i + 1,
                                 [hull_bins EXCEPT ![n].z_list = @ \o this_bin.z_list],
                                 tree)
             ELSE hull_loop(z_bins, i + 1, Append(hull_bins, new_bin), tree)

\* z_ranges with every step starting at its own lowest Z
z_ranges_own(hull_bins) ==
    LET reversed == [idx \in 1..Len(hull_bins) |-> hull_bins[Len(hull_bins) + 1 - idx]]
        z_of(idx) == sorted(Range(reversed[idx].z_list))
    IN  [idx \in 1..Len(reversed) |->
            [hull |-> reversed[idx].hull,
             area |-> reversed[idx].area,
             z_list |-> z_of(idx),
             start_z |-> z_of(idx)[1],
             end_z |-> z_of(idx)[Len(z_of(idx))]]]

\* z_ranges without hull_bins.reverse()
z_ranges_unreversed(hull_bins) ==
    LET z_of(idx) == sorted(Range(hull_bins[idx].z_list))
    IN  [idx \in 1..Len(hull_bins) |->
            [hull |-> hull_bins[idx].hull,
             area |-> hull_bins[idx].area,
             z_list |-> z_of(idx),
             start_z |-> IF idx = 1 THEN z_of(idx)[1]
                         ELSE z_of(idx - 1)[Len(z_of(idx - 1))],
             end_z |-> z_of(idx)[Len(z_of(idx))]]]

\* lines 290-300: board-level step first; each step starts where the one
\* below it ends
z_ranges(hull_bins) ==
    LET reversed == [idx \in 1..Len(hull_bins) |-> hull_bins[Len(hull_bins) + 1 - idx]]
        z_of(idx) == sorted(Range(reversed[idx].z_list))
    IN  [idx \in 1..Len(reversed) |->
            [hull |-> reversed[idx].hull,
             area |-> reversed[idx].area,
             z_list |-> z_of(idx),
             start_z |-> IF idx = 1 THEN z_of(idx)[1]
                         ELSE z_of(idx - 1)[Len(z_of(idx - 1))],
             end_z |-> z_of(idx)[Len(z_of(idx))]]]

gen_fitting_pockets(mesh, z_bin_size, tree) ==
    LET reverse_z == reverse_sorted(DOMAIN mesh)
        z_bins == bin_loop(mesh, reverse_z, 1,
                           <<[start_z |-> reverse_z[1], z_list |-> <<>>, verts |-> {}]>>,
                           z_bin_size)
    IN  z_ranges(hull_loop(z_bins, 1, <<>>, tree))

-----------------------------------------------------------------------------
(* jigify.gen_shell_shape, lines 313-403 *)

\* gen_fitting_pockets(mesh, 0.5)
fitting_z_bin_size == 50

\* The vertices of a hull: the corners of the rectangle, or for one grown by
\* buffer() the points of the arc of 16 segments around each corner
hull_points(hull) ==
    {[x |-> sx * (hull.w \div 2), y |-> sy * (hull.h \div 2), arc |-> a] :
        sx \in {-1, 1}, sy \in {-1, 1},
        a \in IF hull.offset = 0 THEN {0} ELSE 0..16}

\* extract_corners_2D finding no corner
extract_corners_none(poly_points) == {}

\* "for now lazily return all points"
extract_corners_2D(poly_points) == poly_points

\* A circle(d = dia) at a corner; grown counts how often the diameter was
\* raised by Effective_Shell_Gap + Effective_Shell_Thickness
Circle(loc, dia, grown) == [loc |-> loc, dia |-> dia, grown |-> grown]

gen_shell_shape(mesh, tree) ==
    LET h_bins == gen_fitting_pockets(mesh, fitting_z_bin_size, tree)
        c_dia == At(tree, <<"3dprinter", "corner_dia">>).n
        \* the corners of one step, none when corner_dia is 0
        bin_corners(idx) ==
            IF c_dia > 0 THEN extract_corners_2D(hull_points(h_bins[idx].hull)) ELSE {}
        \* lines 335-355: the polygon of the step and its own corner circles
        pshape(idx) ==
            [hull |-> h_bins[idx].hull,
             circles |-> {Circle(loc, c_dia, 0) : loc \in bin_corners(idx)}]
        \* lines 339-340, 357: the steps are walked from the tallest (the last
        \* of h_bins) to the first, the circles of a step grow once for every
        \* step walked after it
        corners ==
            UNION {{Circle(loc, c_dia, idx - 1) : loc \in bin_corners(idx)} :
                      idx \in 1..Len(h_bins)}
        outline == [hull |-> h_bins[1].hull, circles |-> corners]
    IN  [h_bins |-> h_bins,
         fitting_pocket |->
             [idx \in 1..Len(h_bins) |->
                 [shape |-> pshape(idx), offset |-> "Effective_Shell_Gap",
                  start_z |-> h_bins[idx].start_z, end_z |-> h_bins[idx].end_z]],
         outline |-> outline,
         wiggle_pocket |-> [shape |-> outline, offset |-> "Effective_Shell_Gap"],
         perimeter |->
             [shape |-> outline,
              offset |-> "Effective_Shell_Gap+Effective_Shell_Thickness"]]

GenShellShape ==
    /\ pc = "synthesis"
    /\ shapes # None
    /\ shapes.built = None
    /\ shapes' = [shapes EXCEPT !.built = gen_shell_shape(shapes.mesh, cfg)]
    /\ UNCHANGED <<pc, board, ref_map, fp_map, mounting_holes, configFile, user_cfg,
                   default_cfg, cfg, alias_idx, th_fp_list, smd_ref_list,
                   th_ref_list, used_th_fp, err, run, first, hole, jig>>

NextShapes == GenShellShape

\* The meshes gen_shell_shape is called with: they reach down to the board
Meshes ==
    UNION {[zs -> Outlines] : zs \in {zs \in SUBSET Levels : \E z \in zs : z <= 0}}

\* corner_dia as configured: none, or 1 mm
CornerDias == {N(0), N(100)}

InitShapes ==
    /\ pc = "synthesis"
    /\ board = <<>>
    /\ ref_map = <<>>
    /\ fp_map = <<>>
    /\ mounting_holes = <<>>
    /\ configFile = None
    /\ user_cfg = inbuilt_user_config
    /\ default_cfg = get_default
    /\ \E dia \in CornerDias :
          cfg = SetAt(get_default, <<"3dprinter", "corner_dia">>, dia)
    /\ alias_idx = 1
    /\ th_fp_list = <<>>
    /\ smd_ref_list = <<>>
    /\ th_ref_list = <<>>
    /\ used_th_fp = {}
    /\ err = NoError
    /\ run = 1
    /\ first = None
    /\ hole = None
    /\ jig = None
    /\ \E mesh \in Meshes : shapes = [mesh |-> mesh, built |-> None]

SpecShapes == InitShapes /\ [][NextShapes]_vars

Built == shapes # None /\ shapes.built # None

h_bins == shapes.built.h_bins

-----------------------------------------------------------------------------
(* The retained steps *)

\* The distinct Z levels of the mesh
ZLevels == DOMAIN shapes.mesh

\* C21: a mesh with N distinct Z levels gets at least one and at most N
\* retained steps, and from the tallest step down to the board-level step
\* (the first of h_bins) no step's hull area is smaller than that of the
\* step above it, for the recorded area and for the area of the hull kept.
C21_StepsAndAreas ==
    Built =>
        /\ Len(h_bins) >= 1
        /\ Len(h_bins) <= Cardinality(ZLevels)
        /\ \A idx \in 1..(Len(h_bins) - 1) :
              /\ h_bins[idx].area >= h_bins[idx + 1].area
              /\ hull_area(h_bins[idx].hull) >= hull_area(h_bins[idx + 1].hull)

\* Four levels in three bins, each wider than the one above: three steps
C21_Witness ==
    /\ Built
    /\ Cardinality(ZLevels) = 4
    /\ Len(h_bins) = 3
    /\ h_bins[1].area > h_bins[2].area /\ h_bins[2].area > h_bins[3].area

-----------------------------------------------------------------------------
(* Merging of Z-bins *)

\* The Z-bins of the mesh, tallest first
ZBins ==
    LET reverse_z == reverse_sorted(ZLevels)
    IN  bin_loop(shapes.mesh, reverse_z, 1,
                 <<[start_z |-> reverse_z[1], z_list |-> <<>>, verts |-> {}]>>,
                 fitting_z_bin_size)

\* The retained step that covers a Z level
StepOf(z) == CHOOSE idx \in 1..Len(h_bins) : z \in Range(h_bins[idx].z_list)

\* The step that was the last retained one when bin i (i > 1) was walked:
\* the one bin i - 1 started or was merged into
StepBefore(i) == h_bins[StepOf(ZBins[i - 1].z_list[1])]

\* Bin i was merged into that step
MergedBin(i) == ZBins[i].z_list[1] \in Range(StepBefore(i).z_list)

\* By how much the cumulative hull area of bin i differs from the area
\* recorded for that step
Change(i) ==
    hull_area(ConvexHull(ZBins[i].verts, StepBefore(i).hull)) - StepBefore(i).area

\* C22 as stated: a bin is merged into the previous retained step when the
\* area changes by less than the threshold, and starts a new step otherwise,
\* also when the change equals the threshold.
C22_MergeBelowThreshold ==
    Built => \A i \in 2..Len(ZBins) : MergedBin(i) <=> Change(i) < meaningful_change

\* C22 as the code has it: a bin starts a new step when the area exceeds the
\* recorded area of the previous retained step by more than the threshold of
\* 1 mm^2 and is merged otherwise, also when the change equals the
\* threshold; bins with hull areas 12 then 30 give exactly 2 steps.
C22_MergeUpToThreshold ==
    Built =>
        /\ \A i \in 2..Len(ZBins) : MergedBin(i) <=> Change(i) <= meaningful_change
        /\ (/\ Len(ZBins) = 2
            /\ extent(ZBins[1].verts) = Rect(400, 300)
            /\ extent(ZBins[2].verts) = Rect(600, 500)) => Len(h_bins) = 2

\* A 3 mm^2 level above a 4 mm^2 one: the change equals the threshold and
\* the lower bin is merged
C22_Witness ==
    /\ Built
    /\ ZLevels = {70, -30}
    /\ shapes.mesh[70] = [w |-> 200, h |-> 150]
    /\ shapes.mesh[-30] = [w |-> 250, h |-> 160]
    /\ Change(2) = meaningful_change
    /\ Len(h_bins) = 1

-----------------------------------------------------------------------------
(* Corner circles *)

c_dia == At(cfg, <<"3dprinter", "corner_dia">>).n

fitting_pocket == shapes.built.fitting_pocket

outline == shapes.built.outline

\* The places of a set of circles
Places(circles) == {c.loc : c \in circles}

\* The outline has a circle at every hull vertex of every retained step
OutlineHasAllCorners ==
    \A idx \in 1..Len(h_bins) : hull_points(h_bins[idx].hull) \subseteq Places(outline.circles)

\* C23 as stated: with a corner diameter above 0 the pocket cross-section of
\* every retained step is that step's hull alone, gap-offset, with no corner
\* circle, and the outline has a circle at every hull vertex of every step.
C23_CirclesInOutlineOnly ==
    (Built /\ c_dia > 0) =>
        /\ \A idx \in 1..Len(h_bins) :
              /\ fitting_pocket[idx].shape.hull = h_bins[idx].hull
              /\ fitting_pocket[idx].shape.circles = {}
        /\ OutlineHasAllCorners

\* C23 as the code has it: the cross-section of a step's pocket is the
\* step's hull together with a circle of the corner diameter at each of that
\* step's own hull vertices, gap-offset; the outline is the board-level hull
\* with a circle at every hull vertex of every retained step; with a corner
\* diameter of 0 there is no circle anywhere.
C23_CirclesOfOwnStepInPocket ==
    Built =>
        /\ \A idx \in 1..Len(h_bins) :
              /\ fitting_pocket[idx].shape.hull = h_bins[idx].hull
              /\ fitting_pocket[idx].offset = "Effective_Shell_Gap"
              /\ fitting_pocket[idx].shape.circles =
                    IF c_dia > 0
                    THEN {Circle(loc, c_dia, 0) : loc \in hull_points(h_bins[idx].hull)}
                    ELSE {}
        /\ outline.hull = h_bins[1].hull
        /\ c_dia > 0 => OutlineHasAllCorners
        /\ c_dia = 0 => outline.circles = {}

\* Two steps with corner circles of 1 mm: the upper step's pocket has its
\* four, the outline all eight
C23_Witness ==
    /\ Built
    /\ c_dia = 100
    /\ Len(h_bins) = 2
    /\ h_bins[2].hull.offset = 0
    /\ Cardinality(fitting_pocket[2].shape.circles) = 4
    /\ Cardinality(Places(outline.circles)) = 8

-----------------------------------------------------------------------------
(* jigify.py lines 550-574 and 757-853: the component loops of the driver *)

min_z_of(mesh) == CHOOSE z \in DOMAIN mesh : \A other \in DOMAIN mesh : z <= other
max_z_of(mesh) == CHOOSE z \in DOMAIN mesh : \A other \in DOMAIN mesh : other <= z

\* float('inf'): above every Z of a mesh
float_inf == 1000000

\* max() and min() of the loop
larger(a, b) == IF a >= b THEN a ELSE b
smaller(a, b) == IF b < a THEN b ELSE a

\* model_loop leaving the loop at the first model that cannot be used
RECURSIVE model_loop_until_skip(_, _, _, _)
model_loop_until_skip(th, idx, acc, tree) ==
    IF idx > Len(th.models) THEN acc
    ELSE LET mesh == th.models[idx]
             shell_ident == <<th.ref, idx - 1>>
         IN  IF DOMAIN mesh = {} THEN acc
             ELSE IF min_z_of(mesh) > 0 THEN acc
             ELSE model_loop_until_skip(th, idx + 1,
                    [fp_centers |-> Append(acc.fp_centers, [x |-> th.x, y |-> th.y]),
                     built |-> (shell_ident :> gen_shell_shape(mesh, tree)) @@ acc.built,
                     wiggle |-> Append(acc.wiggle,
                                       [name |-> shell_ident,
                                        min_z |-> min_z_of(mesh),
                                        max_z |-> max_z_of(mesh),
                                        fp_center |-> [x |-> th.x, y |-> th.y]]),
                     local_max_z |-> larger(acc.local_max_z, max_z_of(mesh)),
                     local_min_z |-> smaller(acc.local_min_z, min_z_of(mesh))],
                    tree)

\* lines 770-809: the models of one through-hole component, in order; an
\* empty mesh and a mesh above the board are passed over
RECURSIVE model_loop(_, _, _, _)
model_loop(th, idx, acc, tree) ==
    IF idx > Len(th.models) THEN acc
    ELSE LET mesh == th.models[idx]
             shell_ident == <<th.ref, idx - 1>>
         IN  IF DOMAIN mesh = {} THEN model_loop(th, idx + 1, acc, tree)
             ELSE IF min_z_of(mesh) > 0 THEN model_loop(th, idx + 1, acc, tree)
             ELSE model_loop(th, idx + 1,
                    [fp_centers |-> Append(acc.fp_centers, [x |-> th.x, y |-> th.y]),
                     built |-> (shell_ident :> gen_shell_shape(mesh, tree)) @@ acc.built,
                     wiggle |-> Append(acc.wiggle,
                                       [name |-> shell_ident,
                                        min_z |-> min_z_of(mesh),
                                        max_z |-> max_z_of(mesh),
                                        fp_center |-> [x |-> th.x, y |-> th.y]]),
                     local_max_z |-> larger(acc.local_max_z, max_z_of(mesh)),
                     local_min_z |-> smaller(acc.local_min_z, min_z_of(mesh))],
                    tree)

\* lines 550-574: the settings read from the resolved tree; the forced
\* grooves are added to the mounting holes
JigSettings ==
    /\ pc = "synthesis"
    /\ jig # None
    /\ jig.stage = "settings"
    /\ jig' = [jig EXCEPT
                 !.stage = "th",
                 !.base_thickness = At(cfg, <<"holder", "base", "thickness">>).n,
                 !.groove_size = At(cfg, <<"holder", "groove_size">>).n,
                 !.mounting_holes = @ \o At(cfg, <<"holder", "forced_grooves">>).l]
    /\ UNCHANGED <<pc, board, ref_map, fp_map, mounting_holes, configFile, user_cfg,
                   default_cfg, cfg, alias_idx, th_fp_list, smd_ref_list,
                   th_ref_list, used_th_fp, err, run, first, hole, shapes>>

\* lines 757-815: one turn of the loop over th_ref_list
ProcessTH ==
    /\ pc = "synthesis"
    /\ jig # None
    /\ jig.stage = "th"
    /\ jig.next <= Len(jig.th)
    /\ LET th == jig.th[jig.next]
           done == model_loop(th, 1,
                              [fp_centers |-> jig.fp_centers,
                               built |-> jig.built,
                               wiggle |-> <<>>,
                               local_max_z |-> 0,
                               local_min_z |-> float_inf],
                              cfg)
       IN  jig' = [jig EXCEPT
                     !.next = @ + 1,
                     !.fp_centers = done.fp_centers,
                     !.built = done.built,
                     !.all_shells =
                         IF done.local_max_z > 0
                         THEN Append(@, [ref |-> th.ref,
                                         wiggle |-> done.wiggle,
                                         max_z |-> done.local_max_z,
                                         min_z |-> done.local_min_z])
                         ELSE @,
                     !.topmost_z = larger(@, done.local_max_z)]
    /\ UNCHANGED <<pc, board, ref_map, fp_map, mounting_holes, configFile, user_cfg,
                   default_cfg, cfg, alias_idx, th_fp_list, smd_ref_list,
                   th_ref_list, used_th_fp, err, run, first, hole, shapes>>

\* lines 825-851: the models of one surface-mount component
RECURSIVE keepout_loop(_, _, _)
keepout_loop(smd, idx, acc) ==
    IF idx > Len(smd.models) THEN acc
    ELSE LET mesh == smd.models[idx]
         IN  IF DOMAIN mesh = {} THEN keepout_loop(smd, idx + 1, acc)
             ELSE keepout_loop(smd, idx + 1,
                    [smd_keepouts |-> Append(acc.smd_keepouts,
                                             [name |-> <<smd.ref, idx - 1>>,
                                              ref |-> smd.ref,
                                              min_z |-> min_z_of(mesh),
                                              max_z |-> max_z_of(mesh)]),
                     topmost_z |-> larger(acc.topmost_z, max_z_of(mesh))])

\* lines 817-851: the loop over th_ref_list is over; the loop over
\* smd_ref_list
RECURSIVE smd_ref_loop(_, _, _)
smd_ref_loop(smds, i, acc) ==
    IF i > Len(smds) THEN acc
    ELSE smd_ref_loop(smds, i + 1, keepout_loop(smds[i], 1, acc))

ProcessSMD ==
    /\ pc = "synthesis"
    /\ jig # None
    /\ jig.stage = "th"
    /\ jig.next > Len(jig.th)
    /\ LET done == smd_ref_loop(jig.smd, 1, [smd_keepouts |-> <<>>,
                                         topmost_z |-> jig.topmost_z])
       IN  jig' = [jig EXCEPT !.stage = "emit",
                              !.smd_keepouts = done.smd_keepouts,
                              !.topmost_z = done.topmost_z]
    /\ UNCHANGED <<pc, board, ref_map, fp_map, mounting_holes, configFile, user_cfg,
                   default_cfg, cfg, alias_idx, th_fp_list, smd_ref_list,
                   th_ref_list, used_th_fp, err, run, first, hole, shapes>>

\* edge_cuts.compute_grooves(arc_resolution, shape, groove_size): the sample
\* points of the outline, in order, one kept only when it is at least
\* groove_size away from every one kept before it; none for groove_size 0
RECURSIVE merge_samples(_, _, _, _)
merge_samples(samples, i, kept, groove_size) ==
    IF i > Len(samples) THEN kept
    ELSE LET pt == samples[i]
             near(o) == (pt.x - o.x) * (pt.x - o.x) + (pt.y - o.y) * (pt.y - o.y)
                            < groove_size * groove_size
         IN  IF \E k \in 1..Len(kept) : near(kept[k])
             THEN merge_samples(samples, i + 1, kept, groove_size)
             ELSE merge_samples(samples, i + 1, Append(kept, pt), groove_size)

compute_grooves(arc_resolution, shape, groove_size) ==
    IF groove_size = 0 THEN <<>> ELSE merge_samples(shape, 1, <<>>, groove_size)

\* lines 1001-1013: the corners of the bounding box of the PCB edge
pcb_bb_corners(pcb_edge_points) ==
    LET xs == {pcb_edge_points[i].x : i \in DOMAIN pcb_edge_points}
        ys == {pcb_edge_points[i].y : i \in DOMAIN pcb_edge_points}
        lo(vs) == CHOOSE v \in vs : \A o \in vs : v <= o
        hi(vs) == CHOOSE v \in vs : \A o \in vs : o <= v
    IN  <<[x |-> lo(xs), y |-> lo(ys)], [x |-> lo(xs), y |-> hi(ys)],
          [x |-> hi(xs), y |-> lo(ys)], [x |-> hi(xs), y |-> hi(ys)]>>

\* pockets_of with every pocket ending at the component's own height
pockets_of_own_height(subshells, shell_type, max_z, built) ==
    IF shell_type = "courtyard"
    THEN {[kind |-> "courtyard", name |-> subshells.ref,
           bottom |-> subshells.min_z, top |-> subshells.max_z]}
    ELSE IF shell_type = "wiggle"
    THEN {[kind |-> "wiggle", name |-> subshells.wiggle[k].name,
           bottom |-> subshells.min_z, top |-> subshells.max_z] :
             k \in DOMAIN subshells.wiggle}
    ELSE {[kind |-> "fitting", name |-> subshells.wiggle[k].name,
           bottom |-> built[subshells.wiggle[k].name].fitting_pocket[1].start_z,
           top |-> LET steps == built[subshells.wiggle[k].name].fitting_pocket
                   IN  steps[Len(steps)].end_z] : k \in DOMAIN subshells.wiggle}

\* lines 1154-1190: the pockets cut for one component, by its shell type:
\* the courtyard pocket and the wiggle pockets reach from min_z_<ref> to
\* max_z_<ref>, a fitting pocket is the stack of its steps
pockets_of(subshells, shell_type, max_z, built) ==
    IF shell_type = "courtyard"
    THEN {[kind |-> "courtyard", name |-> subshells.ref,
           bottom |-> subshells.min_z, top |-> max_z]}
    ELSE IF shell_type = "wiggle"
    THEN {[kind |-> "wiggle", name |-> subshells.wiggle[k].name,
           bottom |-> subshells.min_z, top |-> max_z] : k \in DOMAIN subshells.wiggle}
    ELSE {[kind |-> "fitting", name |-> subshells.wiggle[k].name,
           bottom |-> built[subshells.wiggle[k].name].fitting_pocket[1].start_z,
           top |-> LET steps == built[subshells.wiggle[k].name].fitting_pocket
                   IN  steps[Len(steps)].end_z] : k \in DOMAIN subshells.wiggle}

\* lines 853-1190: what is written to the OpenSCAD script
Emit ==
    /\ pc = "synthesis"
    /\ jig # None
    /\ jig.stage = "emit"
    /\ LET bottom_insertion_z == jig.topmost_z + 2 * jig.base_thickness
           refs == {jig.all_shells[i].ref : i \in DOMAIN jig.all_shells}
           shells_of(ref) ==
               jig.all_shells[CHOOSE i \in DOMAIN jig.all_shells : jig.all_shells[i].ref = ref]
           \* line 961: max_z_<ref> = (Insert_<ref>_From=="bottom")? bottom_insertion_z : max_z
           max_z == [ref \in refs |->
                        IF At(cfg, <<"TH", ref, "insertion_direction">>) = S("bottom")
                        THEN bottom_insertion_z
                        ELSE shells_of(ref).max_z]
       IN  jig' = [jig EXCEPT
                     !.stage = "done",
                     !.scad =
                        [bottom_insertion_z |-> bottom_insertion_z,
                         topmost_z |-> jig.topmost_z,
                         max_z |-> max_z,
                         pockets |->
                            [ref \in refs |->
                                pockets_of(shells_of(ref),
                                           At(cfg, <<"TH", ref, "shell_type">>).s,
                                           max_z[ref], jig.built)],
                         dt_centers |-> jig.fp_centers \o jig.mounting_holes
                                            \o pcb_bb_corners(jig.pcb_edge_points),
                         groove_lines |->
                            compute_grooves(
                                At(cfg, <<"pcb", "tesellate_edge_cuts_curve">>).n,
                                jig.pcb_edge_points, jig.groove_size)]]
    /\ UNCHANGED <<pc, board, ref_map, fp_map, mounting_holes, configFile, user_cfg,
                   default_cfg, cfg, alias_idx, th_fp_list, smd_ref_list,
                   th_ref_list, used_th_fp, err, run, first, hole, shapes>>

NextJig == JigSettings \/ ProcessTH \/ ProcessSMD \/ Emit

\* The meshes of the models attached to footprints: one without vertices,
\* one above the board, one wholly below the board plane, a low and a tall
\* one standing on the board
EmptyMesh == [z \in {} |-> [w |-> 0, h |-> 0]]
FloatingMesh == (10 :> [w |-> 200, h |-> 150]) @@ (70 :> [w |-> 200, h |-> 150])
SunkMesh == (-30 :> [w |-> 200, h |-> 150])
LowMesh == (-30 :> [w |-> 200, h |-> 150]) @@ (10 :> [w |-> 250, h |-> 160])
TallMesh == (-30 :> [w |-> 40, h |-> 40]) @@ (130 :> [w |-> 400, h |-> 300])

ModelLists ==
    {<<>>, <<EmptyMesh>>, <<FloatingMesh>>, <<SunkMesh>>, <<LowMesh>>, <<TallMesh>>,
     <<EmptyMesh, TallMesh>>, <<FloatingMesh, LowMesh>>, <<LowMesh, TallMesh>>}

\* The processed through-hole components: J1 with any models, insertion
\* direction and shell type, and possibly J2 after it
ThLists ==
    LET first_ones == {[ref |-> "J1", x |-> 300, y |-> 200, models |-> ms,
                        insertion_direction |-> ins, shell_type |-> st] :
                          ms \in ModelLists, ins \in {"top", "bottom"},
                          st \in {"fitting", "wiggle", "courtyard"}}
        second_ones == {[ref |-> "J2", x |-> 700, y |-> 300, models |-> <<LowMesh>>,
                         insertion_direction |-> "top", shell_type |-> "fitting"],
                        [ref |-> "J2", x |-> 700, y |-> 300, models |-> <<TallMesh>>,
                         insertion_direction |-> "bottom", shell_type |-> "wiggle"],
                        [ref |-> "J2", x |-> 700, y |-> 300, models |-> <<EmptyMesh>>,
                         insertion_direction |-> "top", shell_type |-> "fitting"]}
    IN  {<<a>> : a \in first_ones} \cup {<<a, b>> : a \in first_ones, b \in second_ones}

\* The surface-mount components: none, a flat one, or a tall one next to
\* one whose model is empty
SmdLists ==
    {<<>>,
     <<[ref |-> "S1", models |-> <<(0 :> [w |-> 200, h |-> 150]) @@ (50 :> [w |-> 200, h |-> 150])>>]>>,
     <<[ref |-> "S1", models |-> <<(0 :> [w |-> 200, h |-> 150]) @@ (300 :> [w |-> 200, h |-> 150])>>],
       [ref |-> "S2", models |-> <<EmptyMesh>>]>>}

\* A 10 mm x 5 mm board outline
BoardOutline ==
    <<[x |-> 0, y |-> 0], [x |-> 1000, y |-> 0], [x |-> 1000, y |-> 500], [x |-> 0, y |-> 500]>>

\* holder.forced_grooves: none, or the midpoints of the two short edges
ForcedGrooves == {<<>>, <<[x |-> 0, y |-> 250], [x |-> 1000, y |-> 250]>>}

GrooveSizes == {N(1500), N(300)}

BaseThicknesses == {N(100), N(200)}

\* The resolved tree of a load that returned: the settings of the driver and
\* one entry for every processed through-hole component
JigTree(ths, forced, groove_size, thickness) ==
    LET RECURSIVE with_refs(_, _)
        with_refs(tree, i) ==
            IF i > Len(ths) THEN tree
            ELSE with_refs(
                    SetAt(tree, <<"TH", ths[i].ref>>,
                          D([insertion_direction |-> S(ths[i].insertion_direction),
                             shell_type |-> S(ths[i].shell_type)])),
                    i + 1)
        settings ==
            SetAt(SetAt(SetAt(SetAt(get_default,
                  <<"3dprinter", "corner_dia">>, N(0)),
                  <<"holder", "forced_grooves">>, L(forced)),
                  <<"holder", "groove_size">>, groove_size),
                  <<"holder", "base", "thickness">>, thickness)
    IN  with_refs(settings, 1)

InitJig ==
    /\ pc = "synthesis"
    /\ board = <<>>
    /\ ref_map = <<>>
    /\ fp_map = <<>>
    /\ mounting_holes = <<>>
    /\ configFile = None
    /\ user_cfg = inbuilt_user_config
    /\ default_cfg = get_default
    /\ alias_idx = 1
    /\ th_fp_list = <<>>
    /\ smd_ref_list = <<>>
    /\ th_ref_list = <<>>
    /\ used_th_fp = {}
    /\ err = NoError
    /\ run = 1
    /\ first = None
    /\ hole = None
    /\ shapes = None
    /\ \E ths \in ThLists, smds \in SmdLists, forced \in ForcedGrooves,
          groove_size \in GrooveSizes, thickness \in BaseThicknesses :
          /\ cfg = JigTree(ths, forced, groove_size, thickness)
          /\ jig = [stage |-> "settings",
                    th |-> ths,
                    smd |-> smds,
                    pcb_edge_points |-> BoardOutline,
                    mounting_holes |-> <<[x |-> 100, y |-> 100]>>,
                    base_thickness |-> None,
                    groove_size |-> None,
                    next |-> 1,
                    all_shells |-> <<>>,
                    fp_centers |-> <<>>,
                    built |-> <<>>,
                    topmost_z |-> 0,
                    smd_keepouts |-> <<>>,
                    scad |-> None]

SpecJig == InitJig /\ [][NextJig]_vars

-----------------------------------------------------------------------------
(* Forced grooves *)

\* The script has been written
Emitted == jig # None /\ jig.stage = "done"

forced_pcb_supports == At(cfg, <<"holder", "forced_grooves">>).l

\* C24: with a groove spacing above 0, every coordinate of
\* holder.forced_grooves is in the groove set the retention grooves are
\* built from, whatever the outline's own sample points are merged into.
C24_ForcedInGrooveSet ==
    (Emitted /\ jig.groove_size > 0) =>
        Range(forced_pcb_supports) \subseteq Range(jig.scad.groove_lines)

\* What the driver does with the forced coordinates: each is one of the
\* points the support mesh is triangulated over
C24_ForcedAreAnchors ==
    Emitted => Range(forced_pcb_supports) \subseteq Range(jig.scad.dt_centers)

\* The 10 mm x 5 mm outline with spacing 15 and the two short-edge midpoints
\* forced: one groove, and the midpoints among the anchors
C24_ForcedAreAnchorsWitness ==
    /\ Emitted
    /\ jig.groove_size = 1500
    /\ Len(forced_pcb_supports) = 2
    /\ Len(jig.scad.groove_lines) = 1
    /\ [x |-> 0, y |-> 250] \in Range(jig.scad.dt_centers)

-----------------------------------------------------------------------------
(* Z-ranges of the retained steps *)

\* The Z values of the bins that make up a step
OwnZ(idx) == {z \in ZLevels : StepOf(z) = idx}

Lowest(zs) == CHOOSE z \in zs : \A other \in zs : z <= other
Highest(zs) == CHOOSE z \in zs : \A other \in zs : other <= z

\* C25 as stated: for every retained step start_z is the lowest and end_z
\* the highest Z of the step's own bins.
C25_OwnZRange ==
    Built =>
        \A idx \in 1..Len(h_bins) :
            /\ h_bins[idx].start_z = Lowest(OwnZ(idx))
            /\ h_bins[idx].end_z = Highest(OwnZ(idx))

\* C25 as the code has it: end_z is the highest Z of the step's own bins;
\* start_z is the lowest Z of its own bins for the board-level step, and for
\* every other step the end_z of the step directly below it, which lies
\* below the step's own bins.
C25_ZRangeMeetsStepBelow ==
    Built =>
        \A idx \in 1..Len(h_bins) :
            /\ h_bins[idx].end_z = Highest(OwnZ(idx))
            /\ idx = 1 => h_bins[idx].start_z = Lowest(OwnZ(idx))
            /\ idx > 1 => /\ h_bins[idx].start_z = h_bins[idx - 1].end_z
                          /\ h_bins[idx].start_z < Lowest(OwnZ(idx))

\* Levels at -30 and 10 in the board-level step and 70 and 130 in two
\* steps above it: the middle step covers 10 to 70, the top one 70 to 130
C25_Witness ==
    /\ Built
    /\ Len(h_bins) = 3
    /\ OwnZ(1) = {-30, 10} /\ OwnZ(2) = {70} /\ OwnZ(3) = {130}
    /\ h_bins[2].start_z = 10 /\ h_bins[2].end_z = 70
    /\ h_bins[3].start_z = 70 /\ h_bins[3].end_z = 130

-----------------------------------------------------------------------------
(* The wiggle shell *)

\* The polygon the wiggle pocket is extruded from
wiggle_polygon == shapes.built.wiggle_pocket.shape

\* The convex hull of the XY projection of all vertices of the mesh
MeshHull == extent(all_verts(shapes.mesh))

\* C26: the polygon the wiggle pocket is extruded from is the convex hull of
\* the XY projection of all mesh vertices (grown by the hole-safety offset
\* where that applied), for any mesh and any number of Z-bins.
C26_WiggleIsMeshHull ==
    Built => [wiggle_polygon.hull EXCEPT !.offset = 0] = MeshHull

\* C26 for the meshes none of whose bins was merged into a step above it
C26_WithoutMergedBins ==
    (Built /\ Len(h_bins) = Len(ZBins)) =>
        [wiggle_polygon.hull EXCEPT !.offset = 0] = MeshHull

\* Three bins, three steps, and the wiggle polygon is the widest outline
C26_WithoutMergedBinsWitness ==
    /\ Built
    /\ Len(ZBins) = 3 /\ Len(h_bins) = 3
    /\ wiggle_polygon.hull = Rect(600, 500)
    /\ MeshHull = Rect(600, 500)

-----------------------------------------------------------------------------
(* Attachments that cannot be used *)

\* A model attachment that gets a shell: its mesh has vertices and reaches
\* down to the board plane
Usable(mesh) == DOMAIN mesh # {} /\ min_z_of(mesh) <= 0

\* The loop over the through-hole components is over
ThDone == jig # None /\ jig.stage \in {"emit", "done"}

ShellRefs == {jig.all_shells[i].ref : i \in DOMAIN jig.all_shells}

\* C27: an attachment whose mesh has no vertices or lies wholly above the
\* board is passed over and nothing else is: every usable attachment of
\* every component has its shapes built, the run goes on without an error,
\* and a component without a usable attachment is not in the shell list and
\* adds no anchor for the support mesh.
C27_SkippedAttachments ==
    ThDone =>
        /\ err = NoError /\ pc = "synthesis"
        /\ \A i \in DOMAIN jig.th :
              LET th == jig.th[i]
              IN  /\ \A idx \in DOMAIN th.models :
                        Usable(th.models[idx]) <=> <<th.ref, idx - 1>> \in DOMAIN jig.built
                  /\ (\A idx \in DOMAIN th.models : ~Usable(th.models[idx])) =>
                        /\ th.ref \notin ShellRefs
                        /\ [x |-> th.x, y |-> th.y] \notin Range(jig.fp_centers)
        /\ Len(jig.fp_centers) = Cardinality(DOMAIN jig.built)
        /\ jig.stage = "done" =>
              /\ DOMAIN jig.scad.pockets = ShellRefs
              /\ Len(jig.scad.dt_centers) =
                    Len(jig.fp_centers) + Len(jig.mounting_holes) + 4

\* J1 has an empty model before a usable one, J2 only an empty one: J1's
\* second model gets its shell, J2 gets none
C27_Witness ==
    /\ Emitted
    /\ Len(jig.th) = 2
    /\ jig.th[1].models = <<EmptyMesh, TallMesh>>
    /\ jig.th[2].models = <<EmptyMesh>>
    /\ DOMAIN jig.built = {<<"J1", 1>>}
    /\ ShellRefs = {"J1"}

\* J1's only model is above the board, J2 after it is processed
C27_FloatingWitness ==
    /\ Emitted
    /\ Len(jig.th) = 2
    /\ jig.th[1].models = <<FloatingMesh>>
    /\ ShellRefs = {"J2"}
    /\ jig.fp_centers = <<[x |-> 700, y |-> 300]>>

-----------------------------------------------------------------------------
(* Insertion from the bottom *)

\* The entry of all_shells of a component
ShellsOf(ref) == jig.all_shells[CHOOSE i \in DOMAIN jig.all_shells : jig.all_shells[i].ref = ref]

\* The component of through-hole list with a given ref
ThOf(ref) == jig.th[CHOOSE i \in DOMAIN jig.th : jig.th[i].ref = ref]

InsertedFromBottom(ref) == ThOf(ref).insertion_direction = "bottom"

\* topmost_z + 2 * base_thickness
InsertionPlane == jig.topmost_z + 2 * jig.base_thickness

\* The maximum Z of the components that have a shell or a keepout
ComponentHeights ==
    {jig.all_shells[i].max_z : i \in DOMAIN jig.all_shells}
        \cup {jig.smd_keepouts[i].max_z : i \in DOMAIN jig.smd_keepouts}

\* The mesh of the attachment a pocket belongs to
MeshOf(pocket) == ThOf(pocket.name[1]).models[pocket.name[2] + 1]

-----------------------------------------------------------------------------
(* The pocket holds the part *)

\* A vertex lies in the hull of the step that covers its Z and in the hull
\* of every step below that one
Held(v) == \A idx \in 1..StepOf(v.z) : inside(v, h_bins[idx].hull)

\* C29: every vertex of the mesh lies inside the hull of the retained step
\* that covers its Z and inside the hull of every lower retained step, the
\* vertices of Z-bins that were merged into a step included.
C29_PocketHoldsPart ==
    Built => \A v \in all_verts(shapes.mesh) : Held(v)

\* The Z values of the bins that started a step
StartedStep == UNION {Range(ZBins[i].z_list) : i \in {i \in DOMAIN ZBins : i = 1 \/ ~MergedBin(i)}}

\* C29 for the vertices of the bins that started a step
C29_BinsThatStartSteps ==
    Built => \A v \in all_verts(shapes.mesh) : v.z \in StartedStep => Held(v)

\* Three bins that each started a step
C29_BinsThatStartStepsWitness ==
    /\ Built
    /\ Len(ZBins) = 3 /\ Len(h_bins) = 3
    /\ StartedStep = ZLevels
    /\ Cardinality(ZLevels) = 4

-----------------------------------------------------------------------------
(* The two lists load returns *)

\* Boards on which two footprints carry one reference designator (as the
\* footprints placed without a schematic symbol do, all named REF**):
\* ref_map keeps the last of them, fp_map lists the ref under each footprint
SameRefBoards ==
    {[i \in 1..2 |-> [ref |-> "REF**", footprint |-> p[i].footprint,
                      th |-> p[i].th, mh |-> p[i].mh]] : p \in [1..2 -> Placements]}

InitSameRef ==
    \E brd \in SameRefBoards, fps \in FootprintSections(MaxEntries) :
        Start(brd, D([footprint |-> D(fps)]), inbuilt_user_config)

SpecSameRef == InitSameRef /\ [][Next]_vars

\* Every ref of the through-hole list is a board ref, named once, whose
\* footprint (the one ref_map holds) has through-hole pads and is not forced
\* to SMD
ThListSound ==
    /\ \A i, j \in DOMAIN th_ref_list : th_ref_list[i] = th_ref_list[j] => i = j
    /\ \A ref \in Range(th_ref_list) :
          /\ ref \in BoardRefs
          /\ ThPads(ref_map[ref].footprint)
          /\ ~Forced(ref_map[ref].footprint)

\* C30: after a load that returned, the processed through-hole list and the
\* SMD list have no ref in common, the through-hole list names no ref
\* twice, and every ref of the through-hole list is a board ref whose
\* footprint has through-hole pads and is not forced to SMD.
C30_ListsDisjoint ==
    Resolved =>
        /\ Range(th_ref_list) \cap Range(smd_ref_list) = {}
        /\ ThListSound

\* What remains on a board that repeats a reference: the through-hole list
\* alone is as stated
C30_ThListAlone == Resolved => ThListSound

C30_ThListAloneWitness ==
    /\ Resolved
    /\ th_ref_list # <<>>
    /\ Range(th_ref_list) \cap Range(smd_ref_list) # {}

====
